---- MODULE Spec2Model ----
(***************************************************************************)
(* Model of summarize_code.py: the per-language declaration walkers, the   *)
(* C/C++ regrouping passes of process_cpp and the per-file process_*       *)
(* wrappers that append sections to the project report.                    *)
(*                                                                         *)
(* Text is modelled as TLA+ strings handled character by character, so     *)
(* that the regular expressions, split/rsplit/strip calls and sorts of the *)
(* source are computed the way Python computes them.  Syntax trees are     *)
(* records: node_type, src (the text the node spans), children, and a      *)
(* record of the named fields that are present.                            *)
(***************************************************************************)
EXTENDS Integers, Sequences, FiniteSets, TLC

VARIABLES project_summary, last, nfiles, parsers, output_file

vars == <<project_summary, last, nfiles, parsers, output_file>>

(***************************************************************************)
(* Bounds                                                                  *)
(***************************************************************************)
MaxFiles == 2
MaxTop == 2

(***************************************************************************)
(* Python string primitives                                                *)
(***************************************************************************)
AsciiChars == "\t\n\r !\"#$%&'()*+,-./0123456789:;<=>?@ABCDEFGHIJKLMNOPQRSTUVWXYZ[\\]^_abcdefghijklmnopqrstuvwxyz{|}~"

WordChars == "0123456789ABCDEFGHIJKLMNOPQRSTUVWXYZ_abcdefghijklmnopqrstuvwxyz"

SpaceChars == "\t\n\r "

Ch(s, i) == SubSeq(s, i, i)

InChars(c, set) == \E i \in 1..Len(set) : Ch(set, i) = c

Ord(c) == CHOOSE i \in 1..Len(AsciiChars) : Ch(AsciiChars, i) = c

IsWord(c) == InChars(c, WordChars)

IsSpace(c) == InChars(c, SpaceChars)

StartsWith(s, p) == Len(s) >= Len(p) /\ SubSeq(s, 1, Len(p)) = p

EndsWith(s, p) == Len(s) >= Len(p) /\ SubSeq(s, Len(s) - Len(p) + 1, Len(s)) = p

\* positions at which sub occurs in s
Occurrences(s, sub) == {i \in 1..(Len(s) - Len(sub) + 1) : SubSeq(s, i, i + Len(sub) - 1) = sub}

Contains(s, sub) == Occurrences(s, sub) # {}

SetMax(S) == CHOOSE m \in S : \A x \in S : x <= m

SetMin(S) == CHOOSE m \in S : \A x \in S : m <= x

\* the last index of the run of characters of the class that starts at i
RECURSIVE SpanFrom(_, _, _)
SpanFrom(s, chars, i) ==
    IF i <= Len(s) /\ InChars(Ch(s, i), chars) THEN SpanFrom(s, chars, i + 1) ELSE i - 1

\* number of leading characters of s that satisfy the class
SpanLen(s, chars) == SpanFrom(s, chars, 1)

LStrip(s) == SubSeq(s, SpanLen(s, SpaceChars) + 1, Len(s))

RStrip(s) ==
    IF \A i \in 1..Len(s) : IsSpace(Ch(s, i)) THEN ""
    ELSE SubSeq(s, 1, SetMax({i \in 1..Len(s) : ~IsSpace(Ch(s, i))}))

Strip(s) == LStrip(RStrip(s))

RECURSIVE Repeat(_, _)
Repeat(s, n) == IF n <= 0 THEN "" ELSE s \o Repeat(s, n - 1)

RECURSIVE Join(_, _)
Join(sep, ss) ==
    IF Len(ss) = 0 THEN ""
    ELSE IF Len(ss) = 1 THEN ss[1]
    ELSE ss[1] \o sep \o Join(sep, Tail(ss))

\* str.split() with no argument: maximal runs of non-whitespace
RECURSIVE Split(_)
Split(s) ==
    LET t == LStrip(s)
    IN  IF t = "" THEN <<>>
        ELSE LET n == IF \A i \in 1..Len(t) : ~IsSpace(Ch(t, i)) THEN Len(t)
                      ELSE SetMin({i \in 1..Len(t) : IsSpace(Ch(t, i))}) - 1
             IN  <<SubSeq(t, 1, n)>> \o Split(SubSeq(t, n + 1, Len(t)))

\* str.rsplit(sep, 1): a one-element list when sep does not occur
RSplit1(s, sep) ==
    IF ~Contains(s, sep) THEN <<s>>
    ELSE LET p == SetMax(Occurrences(s, sep))
         IN  <<SubSeq(s, 1, p - 1), SubSeq(s, p + Len(sep), Len(s))>>

\* str.replace(old, new) for a one-character old
RECURSIVE Replace(_, _, _)
Replace(s, old, new) ==
    IF s = "" THEN ""
    ELSE (IF Ch(s, 1) = old THEN new ELSE Ch(s, 1)) \o Replace(SubSeq(s, 2, Len(s)), old, new)

RECURSIVE StrLess(_, _)
StrLess(a, b) ==
    IF b = "" THEN FALSE
    ELSE IF a = "" THEN TRUE
    ELSE IF Ch(a, 1) = Ch(b, 1) THEN StrLess(SubSeq(a, 2, Len(a)), SubSeq(b, 2, Len(b)))
    ELSE Ord(Ch(a, 1)) < Ord(Ch(b, 1))

StrLeq(a, b) == a = b \/ StrLess(a, b)

\* sorted(): stable insertion into an ascending list
RECURSIVE Insert(_, _)
Insert(x, ss) ==
    IF Len(ss) = 0 THEN <<x>>
    ELSE IF StrLess(x, ss[1]) THEN <<x>> \o ss
    ELSE <<ss[1]>> \o Insert(x, Tail(ss))

RECURSIVE Sorted(_)
Sorted(ss) == IF Len(ss) = 0 THEN <<>> ELSE Insert(ss[Len(ss)], Sorted(SubSeq(ss, 1, Len(ss) - 1)))

Range(ss) == {ss[i] : i \in 1..Len(ss)}

RECURSIVE SetToSorted(_)
SetToSorted(S) ==
    IF S = {} THEN <<>>
    ELSE LET m == CHOOSE x \in S : \A y \in S : StrLeq(x, y)
         IN  <<m>> \o SetToSorted(S \ {m})

\* sorted(list(set(xs)))
SortedSet(ss) == SetToSorted(Range(ss))

IsSortedStrict(ss) == \A i \in 1..(Len(ss) - 1) : StrLess(ss[i], ss[i + 1])

IsSorted(ss) == \A i \in 1..(Len(ss) - 1) : StrLeq(ss[i], ss[i + 1])

\* the part of s before its first newline: what `.*` matches
DotStar(s) ==
    IF \A i \in 1..Len(s) : Ch(s, i) # "\n" THEN s
    ELSE SubSeq(s, 1, SetMin({i \in 1..Len(s) : Ch(s, i) = "\n"}) - 1)

\* re.sub(r'\s*[\r\n]+\s*', repl, s): every maximal whitespace run that
\* holds a line break is replaced by repl
RECURSIVE NewlineSub(_, _)
NewlineSub(s, repl) ==
    IF s = "" THEN ""
    ELSE LET n == SpanLen(s, SpaceChars)
         IN  IF n = 0 THEN Ch(s, 1) \o NewlineSub(SubSeq(s, 2, Len(s)), repl)
             ELSE IF \E i \in 1..n : Ch(s, i) \in {"\n", "\r"}
                  THEN repl \o NewlineSub(SubSeq(s, n + 1, Len(s)), repl)
                  ELSE SubSeq(s, 1, n) \o NewlineSub(SubSeq(s, n + 1, Len(s)), repl)

\* re.match(r'^\s*(?P<type>\w+):\s*(?P<text>.*)', line); with anchored = TRUE
\* the leading \s* is absent (r'^(?P<type>\w+):\s*(?P<signature>.*)')
MatchKind(line, anchored) ==
    LET ind  == IF anchored THEN 0 ELSE SpanLen(line, SpaceChars)
        rest == SubSeq(line, ind + 1, Len(line))
        w    == SpanLen(rest, WordChars)
    IN  IF w >= 1 /\ Len(rest) > w /\ Ch(rest, w + 1) = ":"
        THEN [ok |-> TRUE, indent |-> SubSeq(line, 1, ind), type |-> SubSeq(rest, 1, w),
              text |-> DotStar(LStrip(SubSeq(rest, w + 2, Len(rest))))]
        ELSE [ok |-> FALSE, indent |-> "", type |-> "", text |-> ""]

(***************************************************************************)
(* Ordered dictionaries (defaultdict(list)): sequences of <<key, list>>    *)
(***************************************************************************)
DictKeys(d) == {d[i][1] : i \in 1..Len(d)}

DictGet(d, k) == d[CHOOSE i \in 1..Len(d) : d[i][1] = k][2]

DictAppend(d, k, v) ==
    IF k \in DictKeys(d)
    THEN [i \in 1..Len(d) |-> IF d[i][1] = k THEN <<k, Append(d[i][2], v)>> ELSE d[i]]
    ELSE Append(d, <<k, <<v>>>>)

(***************************************************************************)
(* Syntax trees                                                            *)
(***************************************************************************)
NoFields == [absent |-> TRUE]

NoNode == [node_type |-> "", src |-> "", children |-> <<>>, fields |-> NoFields]

IsNone(node) == node.node_type = ""

Leaf(t, s) == [node_type |-> t, src |-> s, children |-> <<>>, fields |-> NoFields]

Node(t, s, f, c) == [node_type |-> t, src |-> s, children |-> c, fields |-> f]

child_by_field_name(node, f) == IF f \in DOMAIN node.fields THEN node.fields[f] ELSE NoNode

get_node_text(node, default) == IF IsNone(node) THEN default ELSE node.src

Indent(indent_level) == Repeat("  ", indent_level)

(***************************************************************************)
(* process_cpp: regrouping of the raw C/C++ summary lines                  *)
(***************************************************************************)
type_order_FuncFirst == <<"FUNC", "FUNC_DECL", "FIELD", "CONSTRUCTOR", "DESTRUCTOR">>

type_order == <<"FIELD", "CONSTRUCTOR", "DESTRUCTOR", "FUNC", "FUNC_DECL">>

\* the grouping loop of format_block: kind -> texts, unmatched lines skipped
RECURSIVE BlockGroups(_, _)
BlockGroups(lines, groups) ==
    IF Len(lines) = 0 THEN groups
    ELSE LET m == MatchKind(lines[1], FALSE)
         IN  BlockGroups(Tail(lines),
                         IF m.ok THEN DictAppend(groups, m.type, Strip(m.text)) ELSE groups)

\* the items printed under one kind header
GroupItems(items) == Sorted(items)

\* one kind header and its items
RenderGroup(base_indent, type_key, items) ==
    <<base_indent \o type_key \o ":">> \o
    [i \in 1..Len(GroupItems(items)) |-> base_indent \o "  " \o GroupItems(items)[i]]

RECURSIVE RenderGroups(_, _, _)
RenderGroups(base_indent, keys, groups) ==
    IF Len(keys) = 0 THEN <<>>
    ELSE (IF keys[1] \in DictKeys(groups)
          THEN RenderGroup(base_indent, keys[1], DictGet(groups, keys[1]))
          ELSE <<>>) \o RenderGroups(base_indent, Tail(keys), groups)

format_block(lines, base_indent) ==
    LET groups == BlockGroups(lines, <<>>)
    IN  RenderGroups(base_indent, type_order, groups) \o
        RenderGroups(base_indent, SetToSorted(DictKeys(groups) \ Range(type_order)), groups)

\* what the Pass A loop does with one raw line; acc.raised is the IndexError
\* of qualifiers_parts[-1], which the except ValueError clause does not catch
ReparentLine(acc, line) ==
    LET m == MatchKind(line, TRUE) IN
    IF ~(~StartsWith(line, " ") /\ Contains(line, "::")) \/ ~m.ok
    THEN [acc EXCEPT !.other_lines = Append(@, line)]
    ELSE LET parts == RSplit1(m.text, "::") IN
         IF Len(parts) # 2
         THEN [acc EXCEPT !.other_lines = Append(@, line)]
         ELSE LET qualifiers_parts == Split(parts[1]) IN
              IF Len(qualifiers_parts) = 0
              THEN [acc EXCEPT !.raised = TRUE]
              ELSE LET class_name  == qualifiers_parts[Len(qualifiers_parts)]
                       return_type == Join(" ", SubSeq(qualifiers_parts, 1, Len(qualifiers_parts) - 1))
                       clean_sig   == Strip(return_type \o " " \o parts[2])
                   IN  [acc EXCEPT !.class_definitions =
                            DictAppend(@, class_name, "  " \o m.type \o ": " \o clean_sig)]

RECURSIVE PassALoop(_, _)
PassALoop(lines, acc) ==
    IF Len(lines) = 0 \/ acc.raised THEN acc
    ELSE PassALoop(Tail(lines), ReparentLine(acc, lines[1]))

PassA(file_summary_raw) ==
    PassALoop(file_summary_raw, [class_definitions |-> <<>>, other_lines |-> <<>>, raised |-> FALSE])

LeadingSpaces(line) == SpanLen(line, SpaceChars)

\* re.match(r'^(?P<indent>\s*)(?P<type>CLASS|STRUCT|NAMESPACE):\s*(?P<name>.*)', line)
IsContainerLine(line) ==
    LET m == MatchKind(line, FALSE) IN m.ok /\ m.type \in {"CLASS", "STRUCT", "NAMESPACE"}

\* index of the first line after i whose indent is not deeper than the block's
RECURSIVE BlockEnd(_, _, _)
BlockEnd(other_lines, j, block_indent_len) ==
    IF j <= Len(other_lines) /\ LeadingSpaces(other_lines[j]) > block_indent_len
    THEN BlockEnd(other_lines, j + 1, block_indent_len)
    ELSE j

RECURSIVE PassB(_, _)
PassB(other_lines, i) ==
    IF i > Len(other_lines) THEN <<>>
    ELSE LET line == other_lines[i] IN
         IF IsContainerLine(line)
         THEN LET block_indent_len == LeadingSpaces(line)
                  j == BlockEnd(other_lines, i + 1, block_indent_len)
                  block_body_lines == SubSeq(other_lines, i + 1, j - 1)
                  child_indent == SubSeq(line, 1, block_indent_len) \o "  "
              IN  <<line>> \o
                  (IF Len(block_body_lines) > 0 THEN format_block(block_body_lines, child_indent) ELSE <<>>) \o
                  PassB(other_lines, j)
         ELSE <<line>> \o PassB(other_lines, i + 1)

\* for class_name, lines in sorted(class_definitions.items())
RECURSIVE ClassGroups(_, _)
ClassGroups(names, class_definitions) ==
    IF Len(names) = 0 THEN <<>>
    ELSE <<"CLASS: " \o names[1]>> \o format_block(DictGet(class_definitions, names[1]), "  ") \o
         ClassGroups(Tail(names), class_definitions)

FinalBody_GroupsFirst(a) ==
    ClassGroups(SetToSorted(DictKeys(a.class_definitions)), a.class_definitions) \o PassB(a.other_lines, 1)

\* final_body of process_cpp, given the result of the Pass A loop
FinalBody(a) ==
    PassB(a.other_lines, 1) \o ClassGroups(SetToSorted(DictKeys(a.class_definitions)), a.class_definitions)

(***************************************************************************)
(* analyze_cpp_node                                                        *)
(***************************************************************************)
\* while name_node and name_node.type not in [...]: name_node = name_node.declarator
RECURSIVE FunctionNameNode(_)
FunctionNameNode(name_node) ==
    IF ~IsNone(name_node) /\
       name_node.node_type \notin {"identifier", "qualified_identifier", "operator_name", "destructor_name"}
    THEN FunctionNameNode(child_by_field_name(name_node, "declarator"))
    ELSE name_node

\* while name_node.child_by_field_name('declarator'): name_node = ...
RECURSIVE InnermostDeclarator(_)
InnermostDeclarator(name_node) ==
    IF ~IsNone(child_by_field_name(name_node, "declarator"))
    THEN InnermostDeclarator(child_by_field_name(name_node, "declarator"))
    ELSE name_node

\* next((c for c in node.children if pred(c)), None)
FirstChild(node, Pred(_)) ==
    IF \E i \in 1..Len(node.children) : Pred(node.children[i])
    THEN node.children[SetMin({i \in 1..Len(node.children) : Pred(node.children[i])})]
    ELSE NoNode

cpp_namespace_name(node) == get_node_text(child_by_field_name(node, "name"), "")

cpp_function_line(node, indent) ==
    LET type_node       == child_by_field_name(node, "type")
        declarator_node == child_by_field_name(node, "declarator")
        name_node       == FunctionNameNode(child_by_field_name(declarator_node, "declarator"))
        params_node     == child_by_field_name(declarator_node, "parameters")
        func_name       == get_node_text(name_node, "[unnamed_func]")
        params_text     == Strip(NewlineSub(get_node_text(params_node, "()"), " "))
        rt              == Strip(get_node_text(type_node, ""))
        return_type     == IF rt = "void" THEN "" ELSE rt
        prefix          == IF return_type = ""
                           THEN (IF StartsWith(func_name, "~") THEN "DESTRUCTOR" ELSE "CONSTRUCTOR")
                           ELSE "FUNC"
        full_sig        == Strip(return_type \o " " \o func_name \o params_text)
    IN  IF IsNone(declarator_node) THEN <<>> ELSE <<indent \o prefix \o ": " \o full_sig>>

cpp_func_decl_line(node, func_declarator, indent) ==
    LET tt          == Strip(get_node_text(child_by_field_name(node, "type"), ""))
        type_text   == IF tt = "void" THEN "" ELSE tt
        func_name   == get_node_text(child_by_field_name(func_declarator, "declarator"), "[unnamed_func]")
        params_text == Strip(NewlineSub(get_node_text(child_by_field_name(func_declarator, "parameters"), "()"), " "))
    IN  <<indent \o "FUNC_DECL: " \o Strip(type_text \o " " \o func_name \o params_text)>>

\* the FIELD lines of one declaration: one per child whose type mentions 'declarator'
RECURSIVE cpp_field_lines(_, _, _, _)
cpp_field_lines(node, i, type_text, indent) ==
    IF i > Len(node.children) THEN <<>>
    ELSE LET child_node == node.children[i]
             name_text  == Strip(get_node_text(InnermostDeclarator(child_node), ""))
         IN  (IF Contains(child_node.node_type, "declarator") /\ name_text # "" /\ name_text # type_text
              THEN <<indent \o "FIELD: " \o type_text \o " " \o name_text>>
              ELSE <<>>) \o cpp_field_lines(node, i + 1, type_text, indent)

IsFunctionDeclarator(c) == Contains(c.node_type, "function_declarator")

IsClassOrStructSpecifier(c) == c.node_type \in {"class_specifier", "struct_specifier"}

cpp_declaration_lines(node, indent) ==
    LET func_declarator == FirstChild(node, IsFunctionDeclarator)
        specifier_node  == FirstChild(node, IsClassOrStructSpecifier)
        type_text       == Strip(get_node_text(child_by_field_name(node, "type"), "<unknown_type>"))
    IN  IF ~IsNone(func_declarator) THEN cpp_func_decl_line(node, func_declarator, indent)
        ELSE IF ~IsNone(specifier_node) /\ IsNone(child_by_field_name(specifier_node, "body"))
        THEN <<indent \o "FORWARD_DECL: " \o
               Replace(Replace(Strip(get_node_text(node, "")), "\n", " "), ";", "")>>
        ELSE cpp_field_lines(node, 1, type_text, indent)

\* 'class_specifier'.split('_')[0].upper()
TypeKeyword(node_type) ==
    CASE node_type = "class_specifier"  -> "CLASS"
      [] node_type = "struct_specifier" -> "STRUCT"
      [] node_type = "union_specifier"  -> "UNION"

RECURSIVE analyze_cpp_node(_, _, _)
RECURSIVE analyze_cpp_children(_, _, _)
analyze_cpp_children(nodes, acc, indent_level) ==
    IF Len(nodes) = 0 THEN acc
    ELSE analyze_cpp_children(Tail(nodes), analyze_cpp_node(nodes[1], acc, indent_level), indent_level)

\* acc = [summary, includes_list]
analyze_cpp_node(node, acc, indent_level) ==
    LET indent    == Indent(indent_level)
        node_type == node.node_type
        body_node == child_by_field_name(node, "body")
    IN  CASE node_type = "translation_unit" ->
               analyze_cpp_children(node.children, acc, indent_level)
          [] node_type = "preproc_include" ->
               [acc EXCEPT !.includes_list = Append(@, get_node_text(child_by_field_name(node, "path"), ""))]
          [] node_type = "namespace_definition" ->
               LET acc1 == [acc EXCEPT !.summary = Append(@, indent \o "NAMESPACE: " \o cpp_namespace_name(node))]
               IN  IF IsNone(body_node) THEN acc1
                   ELSE analyze_cpp_children(body_node.children, acc1, indent_level + 1)
          [] node_type \in {"class_specifier", "struct_specifier", "union_specifier"} ->
               IF IsNone(body_node) THEN acc
               ELSE analyze_cpp_children(body_node.children,
                        [acc EXCEPT !.summary = Append(@, indent \o TypeKeyword(node_type) \o ": " \o
                                    get_node_text(child_by_field_name(node, "name"), "[Anonymous]"))],
                        indent_level + 1)
          [] node_type = "function_definition" ->
               [acc EXCEPT !.summary = @ \o cpp_function_line(node, indent)]
          [] node_type \in {"declaration", "field_declaration"} ->
               [acc EXCEPT !.summary = @ \o cpp_declaration_lines(node, indent)]
          [] OTHER -> acc

(***************************************************************************)
(* Per-file wrappers: what one process_* call appends to the report        *)
(***************************************************************************)
\* where the body of the try block raises: nowhere, in open()/read(), in
\* parser.parse(), or inside the walker
FailPoints == {"none", "read", "parse", "walk"}

\* str(e) of the exception raised at a fail point
ErrMsg(fail) ==
    CASE fail = "read"  -> "Permission denied"
      [] fail = "parse" -> "parse failed"
      [] fail = "walk"  -> "maximum recursion depth exceeded"
      [] OTHER -> ""

IndexErrorMsg == "list index out of range"

FileHeader(file_path, tag) == "\n-- FILE: " \o file_path \o " (" \o tag \o ") --"

\* the except clause of every process_* function
ErrorSection(file_path, tag, msg) ==
    <<FileHeader(file_path, tag), "  Error processing " \o file_path \o ": " \o msg>>

DirectiveList_NoSet(directives) == Join(", ", Sorted(directives))

\* ', '.join(sorted(list(set(directives))))
DirectiveList(directives) == Join(", ", SortedSet(directives))

DirectiveLine(label, directives) == "  " \o label \o ": " \o DirectiveList(directives)

\* if not file_summary_raw and not includes_list: return
CppNothingToReport(file_summary_raw, includes_list) ==
    Len(file_summary_raw) = 0 /\ Len(includes_list) = 0

process_cpp(file_path, parser, fail, root_node) ==
    LET w    == analyze_cpp_node(root_node, [summary |-> <<>>, includes_list |-> <<>>], 0)
        head == <<FileHeader(file_path, "C/C++")>> \o
                (IF Len(w.includes_list) > 0 THEN <<DirectiveLine("INCLUDES", w.includes_list)>> ELSE <<>>)
        a    == PassA(w.summary)
    IN  IF ~parser THEN <<>>
        ELSE IF fail # "none" THEN ErrorSection(file_path, "C/C++", ErrMsg(fail))
        ELSE IF CppNothingToReport(w.summary, w.includes_list) THEN <<>>
        ELSE IF a.raised THEN head \o ErrorSection(file_path, "C/C++", IndexErrorMsg)
        ELSE head \o FinalBody(a)

(***************************************************************************)
(* analyze_csharp_node                                                     *)
(***************************************************************************)
ChildrenOfType(node, t) == SelectSeq(node.children, LAMBDA c : c.node_type = t)

RECURSIVE Flatten(_)
Flatten(seqs) == IF Len(seqs) = 0 THEN <<>> ELSE seqs[1] \o Flatten(Tail(seqs))

\* if '\n' in params_text: re.sub(r'\s*[\r\n]+\s*', '\n' + indent + '  ', params_text.strip())
ReindentParams(params_text, indent) ==
    IF Contains(params_text, "\n") THEN NewlineSub(Strip(params_text), "\n" \o indent \o "  ")
    ELSE params_text

\* str.rstrip(';')
RECURSIVE RStripSemicolons(_)
RStripSemicolons(s) == IF EndsWith(s, ";") THEN RStripSemicolons(SubSeq(s, 1, Len(s) - 1)) ELSE s

\* re.sub(r'^using\s+', '', raw)
DropUsingKeyword(raw) ==
    IF StartsWith(raw, "using") /\ SpanLen(SubSeq(raw, 6, Len(raw)), SpaceChars) >= 1
    THEN LStrip(SubSeq(raw, 6, Len(raw)))
    ELSE raw

csharp_using(node) ==
    LET alias_node    == child_by_field_name(node, "alias")
        alias_text    == Strip(get_node_text(child_by_field_name(alias_node, "name"), ""))
        namespace_str == Strip(get_node_text(child_by_field_name(node, "name"), ""))
        using_parts   == (IF ~IsNone(child_by_field_name(node, "static")) THEN <<"static">> ELSE <<>>) \o
                         (IF ~IsNone(alias_node) /\ alias_text # "" THEN <<alias_text \o " =">> ELSE <<>>) \o
                         (IF namespace_str # "" THEN <<namespace_str>> ELSE <<>>)
        final_using_text == Join(" ", using_parts)
        raw           == RStripSemicolons(DropUsingKeyword(Strip(get_node_text(node, ""))))
    IN  IF final_using_text # "" THEN <<final_using_text>>
        ELSE IF raw # "" THEN <<raw>> ELSE <<>>

\* node_type.split('_')[0]
CsharpKeyword(node_type) == SubSeq(node_type, 1, SetMin(Occurrences(node_type, "_")) - 1)

csharp_type_line(node, indent) ==
    LET type_params_node == child_by_field_name(node, "type_parameters")
        name_str == get_node_text(child_by_field_name(node, "name"), "[UnnamedType]") \o
                    (IF IsNone(type_params_node) THEN "" ELSE get_node_text(type_params_node, ""))
    IN  indent \o CsharpKeyword(node.node_type) \o " " \o name_str

\* the member name of a method or property: name, explicit interface
\* specifier, first identifier child (methods only), or the placeholder
CsharpMemberName(node, scan, placeholder) ==
    LET name_node          == child_by_field_name(node, "name")
        explicit_specifier == child_by_field_name(node, "explicit_interface_specifier")
        found_id           == FirstChild(node, LAMBDA c : c.node_type = "identifier")
    IN  IF ~IsNone(name_node) THEN get_node_text(name_node, "")
        ELSE IF ~IsNone(explicit_specifier) THEN get_node_text(explicit_specifier, "")
        ELSE IF scan /\ ~IsNone(found_id) THEN get_node_text(found_id, "")
        ELSE placeholder

csharp_method_line(node, indent) ==
    LET method_name == CsharpMemberName(node, TRUE, "[UnknownMethod]")
        params_text == ReindentParams(get_node_text(child_by_field_name(node, "parameters"), "()"), indent)
        rt          == Strip(get_node_text(child_by_field_name(node, "type"), ""))
        return_type_text == IF rt = "" THEN "void" ELSE rt
    IN  indent \o return_type_text \o " " \o method_name \o params_text

\* the declarators of a field or event declaration and its type node
CsharpDeclarators(node) ==
    LET direct == ChildrenOfType(node, "variable_declarator")
        nested == ChildrenOfType(node, "variable_declaration")
    IN  IF Len(direct) > 0 THEN direct
        ELSE Flatten([i \in 1..Len(nested) |-> ChildrenOfType(nested[i], "variable_declarator")])

CsharpDeclaredType(node) ==
    LET type_node == child_by_field_name(node, "type")
        nested    == ChildrenOfType(node, "variable_declaration")
        typed     == SelectSeq(nested, LAMBDA c : ~IsNone(child_by_field_name(c, "type")))
    IN  IF ~IsNone(type_node) \/ Len(ChildrenOfType(node, "variable_declarator")) > 0 \/ Len(typed) = 0
        THEN type_node
        ELSE child_by_field_name(typed[1], "type")

\* field_declaration (prefix "") and event_field_declaration (prefix "event ")
csharp_field_lines(node, indent, prefix, unnamed, complex) ==
    LET declarators == CsharpDeclarators(node)
        type_text   == Strip(get_node_text(CsharpDeclaredType(node), "<unknown_type>"))
    IN  IF Len(declarators) > 0
        THEN [i \in 1..Len(declarators) |->
                 indent \o prefix \o type_text \o " " \o
                 get_node_text(child_by_field_name(declarators[i], "name"), unnamed) \o ";"]
        ELSE <<indent \o prefix \o type_text \o " " \o complex \o ";">>

\* the lines a member declaration (no body to descend into) appends
csharp_member_lines(node, indent) ==
    LET node_type  == node.node_type
        name_node  == child_by_field_name(node, "name")
        params     == get_node_text(child_by_field_name(node, "parameters"), "()")
    IN  CASE node_type = "method_declaration" -> <<csharp_method_line(node, indent)>>
          [] node_type = "constructor_declaration" ->
               <<indent \o get_node_text(name_node, "[Constructor]") \o ReindentParams(params, indent)>>
          [] node_type = "destructor_declaration" ->
               <<indent \o "~" \o get_node_text(name_node, "[Destructor]") \o params>>
          [] node_type = "field_declaration" ->
               csharp_field_lines(node, indent, "", "[UnnamedField]", "[ComplexField]")
          [] node_type = "property_declaration" ->
               <<indent \o get_node_text(child_by_field_name(node, "type"), "<unknown_type>") \o " " \o
                 CsharpMemberName(node, FALSE, "[UnnamedProperty]") \o " { get; }">>
          [] node_type = "event_field_declaration" ->
               csharp_field_lines(node, indent, "event ", "[UnnamedEvent]", "[ComplexEvent]")
          [] node_type = "delegate_declaration" ->
               <<indent \o "delegate " \o get_node_text(child_by_field_name(node, "return_type"), "void") \o " " \o
                 get_node_text(name_node, "[Delegate]") \o params \o ";">>
          [] OTHER -> <<>>

CsharpTypeDeclarations ==
    {"class_declaration", "struct_declaration", "interface_declaration", "enum_declaration", "record_declaration"}

RECURSIVE analyze_csharp_node(_, _, _)
RECURSIVE analyze_csharp_children(_, _, _)
analyze_csharp_children(nodes, acc, indent_level) ==
    IF Len(nodes) = 0 THEN acc
    ELSE analyze_csharp_children(Tail(nodes), analyze_csharp_node(nodes[1], acc, indent_level), indent_level)

\* acc = [summary, usings_list]
analyze_csharp_node(node, acc, indent_level) ==
    LET indent    == Indent(indent_level)
        node_type == node.node_type
        body_node == child_by_field_name(node, "body")
        Descend(acc1) == IF IsNone(body_node) THEN acc1
                         ELSE analyze_csharp_children(body_node.children, acc1, indent_level + 1)
    IN  CASE node_type = "compilation_unit" ->
               analyze_csharp_children(node.children, acc, indent_level)
          [] node_type = "using_directive" ->
               [acc EXCEPT !.usings_list = @ \o csharp_using(node)]
          [] node_type = "namespace_declaration" ->
               Descend([acc EXCEPT !.summary = Append(@, indent \o "namespace " \o
                            get_node_text(child_by_field_name(node, "name"), "[UnknownNamespace]"))])
          [] node_type \in CsharpTypeDeclarations ->
               Descend([acc EXCEPT !.summary = Append(@, csharp_type_line(node, indent))])
          [] OTHER ->
               [acc EXCEPT !.summary = @ \o csharp_member_lines(node, indent)]

HasContent_Always(file_summary, directives) == TRUE

\* if file_summary or usings_list
HasContent(file_summary, directives) == Len(file_summary) > 0 \/ Len(directives) > 0

process_csharp(file_path, parser, fail, root_node) ==
    LET w == analyze_csharp_node(root_node, [summary |-> <<>>, usings_list |-> <<>>], 0)
    IN  IF ~parser THEN <<>>
        ELSE IF fail # "none" THEN ErrorSection(file_path, "C#", ErrMsg(fail))
        ELSE IF ~HasContent(w.summary, w.usings_list) THEN <<>>
        ELSE <<FileHeader(file_path, "C#")>> \o
             (IF Len(w.usings_list) > 0 THEN <<DirectiveLine("USINGS", w.usings_list)>> ELSE <<>>) \o
             w.summary

(***************************************************************************)
(* analyze_javascript_node                                                 *)
(***************************************************************************)
LowerChars == "abcdefghijklmnopqrstuvwxyz"

UpperChars == "ABCDEFGHIJKLMNOPQRSTUVWXYZ"

MapChar(c, from, to) ==
    IF InChars(c, from) THEN Ch(to, CHOOSE i \in 1..Len(from) : Ch(from, i) = c) ELSE c

RECURSIVE MapChars(_, _, _)
MapChars(s, from, to) ==
    IF s = "" THEN "" ELSE MapChar(Ch(s, 1), from, to) \o MapChars(SubSeq(s, 2, Len(s)), from, to)

\* str.upper() and str.lower()
Upper(s) == MapChars(s, LowerChars, UpperChars)

Lower(s) == MapChars(s, UpperChars, LowerChars)

js_function_line(node, indent) ==
    indent \o "FUNC: " \o get_node_text(child_by_field_name(node, "name"), "[anonymous_function]") \o
    ReindentParams(get_node_text(child_by_field_name(node, "parameters"), "()"), indent)

js_method_line(node, indent) ==
    LET method_name == get_node_text(child_by_field_name(node, "name"), "[unnamed_method]")
        params_text == ReindentParams(get_node_text(child_by_field_name(node, "parameters"), "()"), indent)
        kind_text   == get_node_text(child_by_field_name(node, "kind"), "")
        prefix      == IF method_name = "constructor" THEN "CONSTRUCTOR"
                       ELSE IF kind_text = "get" THEN "GETTER"
                       ELSE IF kind_text = "set" THEN "SETTER"
                       ELSE "METHOD"
    IN  indent \o prefix \o ": " \o method_name \o params_text

js_declarator_line(child_decl, kind_token_text, indent) ==
    LET name_text  == get_node_text(child_by_field_name(child_decl, "name"), "[unnamed_variable]")
        value_node == child_by_field_name(child_decl, "value")
    IN  IF ~IsNone(value_node) /\ value_node.node_type = "arrow_function"
        THEN indent \o "ARROW_FUNCTION (" \o kind_token_text \o "): " \o name_text \o
             get_node_text(child_by_field_name(value_node, "parameters"), "()")
        ELSE indent \o "VARIABLE (" \o kind_token_text \o "): " \o name_text

js_declaration_lines(node, indent) ==
    LET kind_token_text == IF Len(node.children) > 0 THEN Upper(get_node_text(node.children[1], "")) ELSE "VAR"
        decls == ChildrenOfType(node, "variable_declarator")
    IN  [i \in 1..Len(decls) |-> js_declarator_line(decls[i], kind_token_text, indent)]

RECURSIVE analyze_javascript_node(_, _, _)
RECURSIVE analyze_javascript_children(_, _, _)
analyze_javascript_children(nodes, summary, indent_level) ==
    IF Len(nodes) = 0 THEN summary
    ELSE analyze_javascript_children(Tail(nodes), analyze_javascript_node(nodes[1], summary, indent_level),
                                     indent_level)

analyze_javascript_node(node, summary, indent_level) ==
    LET indent    == Indent(indent_level)
        node_type == node.node_type
        body_node == child_by_field_name(node, "body")
    IN  CASE node_type = "program" ->
               analyze_javascript_children(node.children, summary, indent_level)
          [] node_type = "function_declaration" ->
               Append(summary, js_function_line(node, indent))
          [] node_type = "class_declaration" ->
               LET s1 == Append(summary, indent \o "CLASS: " \o
                                get_node_text(child_by_field_name(node, "name"), "[UnnamedClass]"))
               IN  IF IsNone(body_node) THEN s1
                   ELSE analyze_javascript_children(ChildrenOfType(body_node, "method_definition"), s1,
                                                    indent_level + 1)
          [] node_type = "method_definition" ->
               Append(summary, js_method_line(node, indent))
          [] node_type \in {"lexical_declaration", "variable_declaration"} ->
               summary \o js_declaration_lines(node, indent)
          [] OTHER -> summary

process_javascript(file_path, parser, fail, root_node) ==
    LET file_summary == analyze_javascript_node(root_node, <<>>, 0)
    IN  IF ~parser THEN <<>>
        ELSE IF fail # "none" THEN ErrorSection(file_path, "JavaScript", ErrMsg(fail))
        ELSE IF ~HasContent(file_summary, <<>>) THEN <<>>
        ELSE <<FileHeader(file_path, "JavaScript")>> \o file_summary

(***************************************************************************)
(* analyze_python_node                                                     *)
(***************************************************************************)
python_class_name(node) == get_node_text(child_by_field_name(node, "name"), "")

python_function_line(node, indent) ==
    indent \o "FUNC: " \o get_node_text(child_by_field_name(node, "name"), "[lambda]") \o
    ReindentParams(get_node_text(child_by_field_name(node, "parameters"), "()"), indent)

python_decorator_lines(node, indent) ==
    LET decorators == ChildrenOfType(node, "decorator")
    IN  [i \in 1..Len(decorators) |->
            indent \o "DECORATOR: @" \o get_node_text(child_by_field_name(decorators[i], "name"), "")]

RECURSIVE analyze_python_node(_, _, _)
RECURSIVE analyze_python_children(_, _, _)
analyze_python_children(nodes, acc, indent_level) ==
    IF Len(nodes) = 0 THEN acc
    ELSE analyze_python_children(Tail(nodes), analyze_python_node(nodes[1], acc, indent_level), indent_level)

\* acc = [summary, imports_list]
analyze_python_node(node, acc, indent_level) ==
    LET indent    == Indent(indent_level)
        node_type == node.node_type
        body_node == child_by_field_name(node, "body")
        Descend(acc1) == IF IsNone(body_node) THEN acc1
                         ELSE analyze_python_children(body_node.children, acc1, indent_level + 1)
    IN  CASE node_type = "module" ->
               analyze_python_children(node.children, acc, indent_level)
          [] node_type = "import_from_statement" ->
               [acc EXCEPT !.imports_list = Append(@,
                    "from " \o get_node_text(child_by_field_name(node, "module_name"), "") \o
                    " import " \o get_node_text(child_by_field_name(node, "name"), ""))]
          [] node_type = "import_statement" ->
               [acc EXCEPT !.imports_list = Append(@,
                    "import " \o get_node_text(child_by_field_name(node, "name"), ""))]
          [] node_type = "decorated_definition" ->
               analyze_python_node(node.children[Len(node.children)],
                                   [acc EXCEPT !.summary = @ \o python_decorator_lines(node, indent)],
                                   indent_level)
          [] node_type = "function_definition" ->
               Descend([acc EXCEPT !.summary = Append(@, python_function_line(node, indent))])
          [] node_type = "class_definition" ->
               Descend([acc EXCEPT !.summary = Append(@, indent \o "CLASS: " \o python_class_name(node) \o
                            get_node_text(child_by_field_name(node, "superclasses"), ""))])
          [] OTHER -> acc

process_python(file_path, parser, fail, root_node) ==
    LET w == analyze_python_node(root_node, [summary |-> <<>>, imports_list |-> <<>>], 0)
    IN  IF ~parser THEN <<>>
        ELSE IF fail # "none" THEN ErrorSection(file_path, "Python", ErrMsg(fail))
        ELSE IF ~HasContent(w.summary, w.imports_list) THEN <<>>
        ELSE <<FileHeader(file_path, "Python")>> \o
             (IF Len(w.imports_list) > 0 THEN <<DirectiveLine("IMPORTS", w.imports_list)>> ELSE <<>>) \o
             w.summary

(***************************************************************************)
(* Input trees: C#, JavaScript, Python                                     *)
(***************************************************************************)
\* using <name>;
CsUsing(name) ==
    Node("using_directive", "using " \o name \o ";", [name |-> Leaf("identifier", name)],
         <<Leaf("using", "using"), Leaf("identifier", name), Leaf(";", ";")>>)

\* void M(){}
CsMethodM ==
    Node("method_declaration", "void M(){}",
         [type |-> Leaf("predefined_type", "void"), name |-> Leaf("identifier", "M"),
          parameters |-> Leaf("parameter_list", "()"), body |-> Leaf("block", "{}")],
         <<Leaf("predefined_type", "void"), Leaf("identifier", "M"), Leaf("parameter_list", "()"),
           Leaf("block", "{}")>>)

\* class A { <members> }
CsClassA(members) ==
    Node("class_declaration", "class A { }",
         [name |-> Leaf("identifier", "A"), body |-> Node("declaration_list", "", NoFields, members)],
         <<>>)

\* int x;
CsFieldX ==
    Node("field_declaration", "int x;", NoFields,
         <<Node("variable_declaration", "int x", [type |-> Leaf("predefined_type", "int")],
                <<Leaf("predefined_type", "int"),
                  Node("variable_declarator", "x", [name |-> Leaf("identifier", "x")], <<>>)>>),
           Leaf(";", ";")>>)

CsUnit(children) == Node("compilation_unit", "", NoFields, children)

CsFiles == <<
    \* an empty file
    CsUnit(<<>>),
    \* class A { void M(){} }
    CsUnit(<<CsClassA(<<CsMethodM>>)>>),
    \* using B; using A; using A; class A { int x; }
    CsUnit(<<CsUsing("B"), CsUsing("A"), CsUsing("A"), CsClassA(<<CsFieldX>>)>>)
>>

\* function f(a){}
JsFunctionF ==
    Node("function_declaration", "function f(a){}",
         [name |-> Leaf("identifier", "f"), parameters |-> Leaf("formal_parameters", "(a)"),
          body |-> Leaf("statement_block", "{}")],
         <<>>)

\* const g = (x) => x;
JsArrowG ==
    Node("lexical_declaration", "const g = (x) => x;", NoFields,
         <<Leaf("const", "const"),
           Node("variable_declarator", "g = (x) => x",
                [name |-> Leaf("identifier", "g"),
                 value |-> Node("arrow_function", "(x) => x",
                                [parameters |-> Leaf("formal_parameters", "(x)")], <<>>)],
                <<>>)>>)

JsProgram(text, children) == Node("program", text, NoFields, children)

JsFiles == <<
    JsProgram("", <<>>),
    JsProgram("function f(a){}\nconst g = (x) => x;", <<JsFunctionF, JsArrowG>>),
    \* export function f(a){}
    JsProgram("export function f(a){}",
              <<Node("export_statement", "export function f(a){}", [declaration |-> JsFunctionF],
                     <<Leaf("export", "export"), JsFunctionF>>)>>)
>>

\* import <name>
PyImport(name) ==
    Node("import_statement", "import " \o name, [name |-> Leaf("dotted_name", name)], <<>>)

\* def m(self): pass
PyMethodM ==
    Node("function_definition", "def m(self): pass",
         [name |-> Leaf("identifier", "m"), parameters |-> Leaf("parameters", "(self)"),
          body |-> Node("block", "pass", NoFields, <<Leaf("pass_statement", "pass")>>)],
         <<>>)

PyModule(children) == Node("module", "", NoFields, children)

PyFiles == <<
    PyModule(<<>>),
    \* import b / import a / import a / class K(B): def m(self): pass
    PyModule(<<PyImport("b"), PyImport("a"), PyImport("a"),
               Node("class_definition", "class K(B): ...",
                    [name |-> Leaf("identifier", "K"), superclasses |-> Leaf("argument_list", "(B)"),
                     body |-> Node("block", "", NoFields, <<PyMethodM>>)],
                    <<>>)>>),
    \* a class_definition for which the parser produced no name node
    PyModule(<<Node("class_definition", "class : pass",
                    [body |-> Node("block", "pass", NoFields, <<Leaf("pass_statement", "pass")>>)],
                    <<>>)>>)
>>

\* the trees the JavaScript and C# parsers build for the embedded texts of
\* the CSHTML inputs; any other text parses to an empty tree
ParseJavaScript(text) ==
    IF Strip(text) = "function f(a){}" THEN JsProgram(text, <<JsFunctionF>>)
    ELSE JsProgram(text, <<>>)

ParseCsharp(text) ==
    IF text = "int x;" THEN CsUnit(<<CsFieldX>>)
    ELSE IF text = "void M(){} int x;" THEN CsUnit(<<CsMethodM, CsFieldX>>)
    ELSE CsUnit(<<>>)

(***************************************************************************)
(* analyze_cshtml_node and process_cshtml                                  *)
(***************************************************************************)
\* str.splitlines() for "\n", "\r" and "\r\n" line ends
RECURSIVE SplitLines(_)
SplitLines(s) ==
    IF s = "" THEN <<>>
    ELSE LET brk == {i \in 1..Len(s) : Ch(s, i) \in {"\n", "\r"}}
         IN  IF brk = {} THEN <<s>>
             ELSE LET b == SetMin(brk)
                      e == IF Ch(s, b) = "\r" /\ b < Len(s) /\ Ch(s, b + 1) = "\n" THEN b + 1 ELSE b
                  IN  <<SubSeq(s, 1, b - 1)>> \o SplitLines(SubSeq(s, e + 1, Len(s)))

\* the largest line_num the directive loop still handles (if line_num > 30: break)
DirectiveScanLimit == 30

DirectiveKeywords == <<"@page", "@model", "@using", "@inject">>

cshtml_directive_lines(source_text) ==
    LET lines == SplitLines(source_text)
        scanned == SubSeq(lines, 1, IF Len(lines) > DirectiveScanLimit + 1 THEN DirectiveScanLimit + 1 ELSE Len(lines))
        hits == SelectSeq([i \in 1..Len(scanned) |-> Strip(scanned[i])],
                          LAMBDA l : \E k \in 1..Len(DirectiveKeywords) : StartsWith(l, DirectiveKeywords[k]))
    IN  [i \in 1..Len(hits) |-> "  DIRECTIVE: " \o hits[i]]

\* length of the @functions / @code token matched at position i (0: none)
CodeMarkerAt(text, i) ==
    IF i + 9 <= Len(text) /\ Lower(SubSeq(text, i, i + 9)) = "@functions" THEN 10
    ELSE IF i + 4 <= Len(text) /\ Lower(SubSeq(text, i, i + 4)) = "@code" THEN 5
    ELSE 0

\* re.search(r"@(?:functions|code)\b", text, re.IGNORECASE)
HasCodeMarker(text) ==
    \E i \in 1..Len(text) :
        LET n == CodeMarkerAt(text, i)
        IN  n > 0 /\ (i + n > Len(text) \/ ~IsWord(Ch(text, i + n)))

\* re.search(r"@(?:functions|code)\s*\{([\s\S]*?)\s*\}", text, re.IGNORECASE):
\* the text after the opening brace of the match starting at i, or no match
CodeBlockAt(text, i) ==
    LET n     == CodeMarkerAt(text, i)
        after == SubSeq(text, i + n, Len(text))
        ws    == SpanLen(after, SpaceChars)
        inner == SubSeq(after, ws + 2, Len(after))
    IN  IF n > 0 /\ Len(after) > ws /\ Ch(after, ws + 1) = "{" /\ Contains(inner, "}")
        THEN [ok |-> TRUE, group1 |-> RStrip(SubSeq(inner, 1, SetMin(Occurrences(inner, "}")) - 1))]
        ELSE [ok |-> FALSE, group1 |-> ""]

CodeBlockMatch(text) ==
    LET starts == {i \in 1..Len(text) : CodeBlockAt(text, i).ok}
    IN  IF starts = {} THEN [ok |-> FALSE, group1 |-> ""] ELSE CodeBlockAt(text, SetMin(starts))

\* the node holding the text of a script element
ScriptContentNode(node) ==
    IF Len(node.children) > 2 /\ node.children[2].node_type = "raw_text" THEN node.children[2]
    ELSE child_by_field_name(node, "text")

EmbeddedLevel_Same(indent_level) == indent_level

\* the depth at which the lines of an embedded block are emitted
EmbeddedLevel(indent_level) == indent_level + 1

RECURSIVE analyze_cshtml_node(_, _, _, _, _)
RECURSIVE analyze_cshtml_children(_, _, _, _, _)
analyze_cshtml_children(nodes, summary, js_parser, cs_parser, indent_level) ==
    IF Len(nodes) = 0 THEN summary
    ELSE analyze_cshtml_children(Tail(nodes),
             analyze_cshtml_node(nodes[1], summary, js_parser, cs_parser, indent_level),
             js_parser, cs_parser, indent_level)

cshtml_script_lines(node, js_parser, indent_level) ==
    LET indent == Indent(indent_level)
        script_content_node == ScriptContentNode(node)
        script_text == get_node_text(script_content_node, "")
    IN  <<indent \o "SCRIPT BLOCK:">> \o
        (IF ~IsNone(script_content_node) /\ js_parser.loaded
         THEN (IF Strip(script_text) = "" THEN <<>>
               ELSE IF js_parser.raises
               THEN <<indent \o "  Error parsing JS in script block: " \o ErrMsg("parse")>>
               ELSE analyze_javascript_node(ParseJavaScript(script_text), <<>>, EmbeddedLevel(indent_level)))
         ELSE IF ~js_parser.loaded /\ ~IsNone(script_content_node) /\ Strip(script_text) # ""
         THEN <<indent \o "  JavaScript parser not available for script block.">>
         ELSE <<>>)

cshtml_code_block_lines(node, cs_parser, indent_level) ==
    LET indent == Indent(indent_level)
        text_content == get_node_text(node, "")
        match == CodeBlockMatch(text_content)
        csharp_code_in_block == Strip(match.group1)
    IN  IF ~HasCodeMarker(text_content) THEN <<>>
        ELSE <<indent \o "CSHTML C# BLOCK (@functions/@code) DETECTED.">> \o
             (IF match.ok /\ cs_parser.loaded
              THEN (IF csharp_code_in_block = "" THEN <<>>
                    ELSE IF cs_parser.raises
                    THEN <<indent \o "    Error parsing C# in CSHTML block: " \o ErrMsg("parse")>>
                    ELSE analyze_csharp_node(ParseCsharp(csharp_code_in_block),
                                             [summary |-> <<>>, usings_list |-> <<>>],
                                             EmbeddedLevel(indent_level)).summary)
              ELSE IF ~cs_parser.loaded /\ match.ok
              THEN <<indent \o "  C# parser not available for CSHTML block.">>
              ELSE <<>>)

analyze_cshtml_node(node, summary, js_parser, cs_parser, indent_level) ==
    IF node.node_type = "script_element"
    THEN summary \o cshtml_script_lines(node, js_parser, indent_level)
    ELSE analyze_cshtml_children(node.children,
             summary \o (IF node.node_type \in {"text", "template_content"}
                         THEN cshtml_code_block_lines(node, cs_parser, indent_level) ELSE <<>>),
             js_parser, cs_parser, indent_level)

process_cshtml(file_path, html_parser, js_parser, cs_parser, fail, root_node) ==
    LET file_summary == analyze_cshtml_node(root_node, cshtml_directive_lines(get_node_text(root_node, "")),
                                            js_parser, cs_parser, 0)
    IN  IF ~html_parser THEN <<>>
        ELSE IF fail # "none" THEN ErrorSection(file_path, "CSHTML", ErrMsg(fail))
        ELSE IF ~HasContent(file_summary, <<>>) THEN <<>>
        ELSE <<FileHeader(file_path, "CSHTML")>> \o file_summary

(***************************************************************************)
(* C/C++ input trees                                                       *)
(***************************************************************************)
CppInclude(path) ==
    Node("preproc_include", "#include " \o path, [path |-> Leaf("system_lib_string", path)],
         <<Leaf("#include", "#include"), Leaf("system_lib_string", path)>>)

CppFunctionDeclarator(name_type, name, params) ==
    Node("function_declarator", name \o params,
         [declarator |-> Leaf(name_type, name), parameters |-> Leaf("parameter_list", params)],
         <<Leaf(name_type, name), Leaf("parameter_list", params)>>)

\* ret name(params) {}
CppFunction(ret_type, ret, name_type, name, params) ==
    Node("function_definition", ret \o " " \o name \o params \o " {}",
         [type |-> Leaf(ret_type, ret), declarator |-> CppFunctionDeclarator(name_type, name, params)],
         <<Leaf(ret_type, ret), CppFunctionDeclarator(name_type, name, params), Leaf("compound_statement", "{}")>>)

\* type *name;
CppPointerField(decl_type, type, name_type, name) ==
    Node(decl_type, type \o " *" \o name \o ";", [type |-> Leaf("primitive_type", type)],
         <<Leaf("primitive_type", type),
           Node("pointer_declarator", "*" \o name, [declarator |-> Leaf(name_type, name)],
                <<Leaf("*", "*"), Leaf(name_type, name)>>),
           Leaf(";", ";")>>)

CppBody(members) == Node("field_declaration_list", "", NoFields, members)

\* *name
CppPointerDeclarator(name_type, name) ==
    Node("pointer_declarator", "*" \o name, [declarator |-> Leaf(name_type, name)],
         <<Leaf("*", "*"), Leaf(name_type, name)>>)

\* name = value
CppInitDeclarator(name, value) ==
    Node("init_declarator", name \o " = " \o value,
         [declarator |-> Leaf("qualified_identifier", name), value |-> Leaf("number_literal", value)],
         <<Leaf("qualified_identifier", name), Leaf("=", "="), Leaf("number_literal", value)>>)

\* type d1, d2, ...;
CppDeclaration(type, declarators) ==
    Node("declaration", type \o " ...;", [type |-> Leaf("primitive_type", type)],
         <<Leaf("primitive_type", type)>> \o declarators \o <<Leaf(";", ";")>>)

\* keyword name { members }
CppClass(keyword, name, members) ==
    Node(keyword \o "_specifier", keyword \o " " \o name \o " { ... }",
         [name |-> Leaf("type_identifier", name), body |-> CppBody(members)], <<>>)

\* keyword name;
CppForwardDecl(decl_type, keyword, name) ==
    Node(decl_type, keyword \o " " \o name \o ";",
         [type |-> Node(keyword \o "_specifier", keyword \o " " \o name,
                        [name |-> Leaf("type_identifier", name)], <<>>)],
         <<Node(keyword \o "_specifier", keyword \o " " \o name,
                [name |-> Leaf("type_identifier", name)], <<>>),
           Leaf(";", ";")>>)

\* name() {}  -- a constructor or destructor: a function_definition without type
CppStructor(name_type, name) ==
    Node("function_definition", name \o "() {}", [declarator |-> CppFunctionDeclarator(name_type, name, "()")],
         <<CppFunctionDeclarator(name_type, name, "()"), Leaf("compound_statement", "{}")>>)

\* namespace name { members }
CppNamespace(name, name_type, members) ==
    Node("namespace_definition", "namespace " \o name \o " { ... }",
         [name |-> Leaf(name_type, name), body |-> Node("declaration_list", "", NoFields, members)],
         <<>>)

CppNodes == <<
    CppInclude("<b>"),
    CppInclude("<a>"),
    \* int Foo::Bar() {}
    CppFunction("primitive_type", "int", "qualified_identifier", "Foo::Bar", "()"),
    \* void ::f() {}
    CppFunction("primitive_type", "void", "qualified_identifier", "::f", "()"),
    \* class A { int *x; int *x; int *y; };
    Node("class_specifier", "class A { int *x; int *x; int *y; }",
         [name |-> Leaf("type_identifier", "A"),
          body |-> CppBody(<<CppPointerField("field_declaration", "int", "field_identifier", "x"),
                             CppPointerField("field_declaration", "int", "field_identifier", "x"),
                             CppPointerField("field_declaration", "int", "field_identifier", "y")>>)],
         <<>>),
    \* namespace { int *y; }
    Node("namespace_definition", "namespace { int *y; }",
         [body |-> Node("declaration_list", "", NoFields,
                        <<CppPointerField("declaration", "int", "identifier", "y")>>)],
         <<>>),
    \* std::string Foo::Name() {}
    CppFunction("qualified_identifier", "std::string", "qualified_identifier", "Foo::Name", "()"),
    \* int Foo::Bar(std::string s) {}
    CppFunction("primitive_type", "int", "qualified_identifier", "Foo::Bar", "(std::string s)"),
    \* a function_definition for which the parser produced no declarator
    Node("function_definition", "int {}", [type |-> Leaf("primitive_type", "int")],
         <<Leaf("primitive_type", "int"), Leaf("compound_statement", "{}")>>),
    \* int *;  -- a declarator whose name is missing
    CppPointerField("declaration", "int", "identifier", ""),
    \* namespace N { class B { int *x; }; }
    CppNamespace("N", "identifier", <<CppClass("class", "B", <<CppPointerField("field_declaration", "int", "field_identifier", "x")>>)>>),
    \* int *b, *a;
    CppDeclaration("int", <<CppPointerDeclarator("identifier", "b"), CppPointerDeclarator("identifier", "a")>>),
    \* union U { int *b; int *a; };
    CppClass("union", "U", <<CppPointerField("field_declaration", "int", "field_identifier", "b"),
                             CppPointerField("field_declaration", "int", "field_identifier", "a")>>),
    \* class K { int f(); struct S {}; int g() {} class B; ~K() {} K() {} int *y; int *x; };
    CppClass("class", "K", <<
        Node("field_declaration", "int f();", [type |-> Leaf("primitive_type", "int")],
             <<Leaf("primitive_type", "int"), CppFunctionDeclarator("field_identifier", "f", "()"), Leaf(";", ";")>>),
        CppClass("struct", "S", <<>>),
        CppFunction("primitive_type", "int", "field_identifier", "g", "()"),
        CppForwardDecl("field_declaration", "class", "B"),
        CppStructor("destructor_name", "~K"),
        CppStructor("identifier", "K"),
        CppPointerField("field_declaration", "int", "field_identifier", "y"),
        CppPointerField("field_declaration", "int", "field_identifier", "x")>>),
    \* int Zed::x = 0, Abc::y = 1;
    CppDeclaration("int", <<CppInitDeclarator("Zed::x", "0"), CppInitDeclarator("Abc::y", "1")>>),
    \* namespace a::b { int f() {} }
    CppNamespace("a::b", "nested_namespace_specifier",
                 <<CppFunction("primitive_type", "int", "identifier", "f", "()")>>),
    \* void run() {}
    CppFunction("primitive_type", "void", "identifier", "run", "()")
>>

TranslationUnit(ixs) == Node("translation_unit", "", NoFields, [i \in 1..Len(ixs) |-> CppNodes[ixs[i]]])

RECURSIVE SeqsUpTo(_, _)
SeqsUpTo(S, n) ==
    IF n = 0 THEN {<<>>}
    ELSE SeqsUpTo(S, n - 1) \cup {Append(q, x) : q \in {r \in SeqsUpTo(S, n - 1) : Len(r) = n - 1}, x \in S}

\* every translation unit of at most MaxTop top-level nodes
CppUnits == SeqsUpTo(1..Len(CppNodes), MaxTop)

(***************************************************************************)
(* Input trees: CSHTML                                                     *)
(***************************************************************************)
\* <script>text</script>; without text the element has two children
HtmlScript(text) ==
    Node("script_element", "<script>" \o text \o "</script>", NoFields,
         IF text = "" THEN <<Leaf("start_tag", "<script>"), Leaf("end_tag", "</script>")>>
         ELSE <<Leaf("start_tag", "<script>"), Leaf("raw_text", text), Leaf("end_tag", "</script>")>>)

\* @page on line 1, @model M on line 31, @using U on line 32
LongPage == "@page" \o Repeat("\n", 30) \o "@model M\n@using U"

HtmlDocument(text, children) == Node("document", text, NoFields, children)

CshtmlFiles == <<
    HtmlDocument("", <<>>),
    \* a page holding one script block
    HtmlDocument("<script> function f(a){} </script>", <<HtmlScript(" function f(a){} ")>>),
    \* a script element inside a div, and an empty script element
    HtmlDocument("<div><script>function f(a){}</script></div><script></script>",
                 <<Node("element", "<div><script>function f(a){}</script></div>", NoFields,
                        <<Leaf("start_tag", "<div>"), HtmlScript("function f(a){}"), Leaf("end_tag", "</div>")>>),
                   HtmlScript("")>>),
    \* directives and a code block
    HtmlDocument("@page\n@model M\n@code { int x; }",
                 <<Leaf("text", "@page\n@model M\n@code { int x; }")>>),
    \* directives on physical lines 1, 31 and 32
    HtmlDocument(LongPage, <<Leaf("text", LongPage)>>),
    \* a code block that holds a method body
    HtmlDocument("@code { void M(){} int x; }", <<Leaf("text", "@code { void M(){} int x; }")>>)
>>

\* the C/C++ files of the multi-file walk, as indices into CppNodes
CppFiles == <<
    <<>>,
    <<1, 2, 1>>,
    <<3>>,
    <<2, 4>>,
    <<5>>,
    <<6, 9, 10>>
>>

(***************************************************************************)
(* State machine: main()                                                   *)
(***************************************************************************)
\* which grammars load_pip_languages and Language() made available
ParserConfigs == {
    [cs |-> TRUE, js |-> TRUE, html |-> TRUE, py |-> TRUE, cpp |-> TRUE],
    [cs |-> TRUE, js |-> FALSE, html |-> TRUE, py |-> FALSE, cpp |-> TRUE],
    [cs |-> FALSE, js |-> TRUE, html |-> TRUE, py |-> TRUE, cpp |-> FALSE]
}

\* os.path.join(root, file) of the k-th file of the walk
FilePath(k, ext) == "./" \o Ch("abcdefgh", k) \o ext

\* the if/elif chain on the file name in main()
Dispatch(file) ==
    IF EndsWith(file, ".cs") THEN "process_csharp"
    ELSE IF EndsWith(file, ".js") THEN "process_javascript"
    ELSE IF EndsWith(file, ".cshtml") THEN "process_cshtml"
    ELSE IF EndsWith(file, ".py") THEN "process_python"
    ELSE IF \E e \in {".cpp", ".h", ".c", ".hpp"} : EndsWith(file, e) THEN "process_cpp"
    ELSE "skip"

NoWalk == [walked |-> FALSE, raw |-> <<>>, directives |-> <<>>]

\* the walker's two buffers at the end of a walk that the call reached
Walked(parser, fail, raw, directives) ==
    IF parser /\ fail \in {"none", "embedded"}
    THEN [walked |-> TRUE, raw |-> raw, directives |-> directives]
    ELSE NoWalk

NoCall == [op |-> "none", file_path |-> "", fail |-> "none", input |-> <<>>, start |-> 0,
           walked |-> FALSE, raw |-> <<>>, directives |-> <<>>]

\* the output file before main() opens it
NotWritten == [written |-> FALSE, text |-> ""]

Init ==
    /\ project_summary = <<>>
    /\ last = NoCall
    /\ nfiles = 0
    /\ parsers \in ParserConfigs
    /\ output_file = NotWritten

Extend_InFront(summary, lines) == lines \o summary

\* summary.append(...) / summary.extend(...): the only way a process_*
\* function touches the report
Extend(summary, lines) == summary \o lines

\* one iteration of the file loop of main(): the call appends to the report;
\* last records the call, the walker's buffers and where its section starts
Call(op, file_path, fail, input, walk, appended) ==
    /\ ~output_file.written
    /\ Dispatch(file_path) = op
    /\ project_summary' = Extend(project_summary, appended)
    /\ last' = [op |-> op, file_path |-> file_path, fail |-> fail, input |-> input,
                start |-> Len(project_summary),
                walked |-> walk.walked, raw |-> walk.raw, directives |-> walk.directives]
    /\ nfiles' = nfiles + 1
    /\ UNCHANGED <<parsers, output_file>>

\* the inputs of one call: a tree and a fail point; a file whose parser is
\* missing is never opened, and a call that fails early never walks a tree
Inputs(parser, n, fails) ==
    IF ~parser THEN {<<1, "none">>}
    ELSE {<<i, "none">> : i \in 1..n} \cup {<<1, fail>> : fail \in fails \ {"none"}}

\* The walker's buffers (w) and the lines the call appends (report) for every
\* file of a catalog at every position k of the walk, with the file's parser
\* loaded and no failure: the values the actions below look up.
CsRuns == [i \in 1..Len(CsFiles) |-> [k \in 1..MaxFiles |->
    [w |-> analyze_csharp_node(CsFiles[i], [summary |-> <<>>, usings_list |-> <<>>], 0),
     report |-> process_csharp(FilePath(k, ".cs"), TRUE, "none", CsFiles[i])]]]

JsRuns == [i \in 1..Len(JsFiles) |-> [k \in 1..MaxFiles |->
    [w |-> analyze_javascript_node(JsFiles[i], <<>>, 0),
     report |-> process_javascript(FilePath(k, ".js"), TRUE, "none", JsFiles[i])]]]

PyRuns == [i \in 1..Len(PyFiles) |-> [k \in 1..MaxFiles |->
    [w |-> analyze_python_node(PyFiles[i], [summary |-> <<>>, imports_list |-> <<>>], 0),
     report |-> process_python(FilePath(k, ".py"), TRUE, "none", PyFiles[i])]]]

CppRuns == [i \in 1..Len(CppFiles) |-> [k \in 1..MaxFiles |->
    [w |-> analyze_cpp_node(TranslationUnit(CppFiles[i]), [summary |-> <<>>, includes_list |-> <<>>], 0),
     report |-> process_cpp(FilePath(k, ".cpp"), TRUE, "none", TranslationUnit(CppFiles[i]))]]]

\* js, cs: the embedded parsers are loaded; r: they raise when called
CshtmlRuns == [i \in 1..Len(CshtmlFiles) |-> [k \in 1..MaxFiles |->
    [js \in BOOLEAN |-> [cs \in BOOLEAN |-> [r \in BOOLEAN |->
        [w |-> analyze_cshtml_node(CshtmlFiles[i], cshtml_directive_lines(get_node_text(CshtmlFiles[i], "")),
                                   [loaded |-> js, raises |-> r], [loaded |-> cs, raises |-> r], 0),
         report |-> process_cshtml(FilePath(k, ".cshtml"), TRUE, [loaded |-> js, raises |-> r],
                                   [loaded |-> cs, raises |-> r], "none", CshtmlFiles[i])]]]]]]

ProcessCsharp ==
    /\ nfiles < MaxFiles
    /\ \E in \in Inputs(parsers.cs, Len(CsFiles), FailPoints) :
          LET file_path == FilePath(nfiles + 1, ".cs")
              w == CsRuns[in[1]][nfiles + 1].w
          IN  Call("process_csharp", file_path, in[2], <<in[1]>>,
                   Walked(parsers.cs, in[2], w.summary, w.usings_list),
                   IF parsers.cs /\ in[2] = "none" THEN CsRuns[in[1]][nfiles + 1].report
                   ELSE process_csharp(file_path, parsers.cs, in[2], CsFiles[in[1]]))

ProcessJavascript ==
    /\ nfiles < MaxFiles
    /\ \E in \in Inputs(parsers.js, Len(JsFiles), FailPoints) :
          LET file_path == FilePath(nfiles + 1, ".js")
          IN  Call("process_javascript", file_path, in[2], <<in[1]>>,
                   Walked(parsers.js, in[2], JsRuns[in[1]][nfiles + 1].w, <<>>),
                   IF parsers.js /\ in[2] = "none" THEN JsRuns[in[1]][nfiles + 1].report
                   ELSE process_javascript(file_path, parsers.js, in[2], JsFiles[in[1]]))

ProcessCshtml ==
    /\ nfiles < MaxFiles
    /\ \E in \in Inputs(parsers.html, Len(CshtmlFiles), FailPoints) \cup
                 {<<i, "embedded">> : i \in {j \in 1..Len(CshtmlFiles) : parsers.html}} :
          LET file_path == FilePath(nfiles + 1, ".cshtml")
              root_node == CshtmlFiles[in[1]]
              js_parser == [loaded |-> parsers.js, raises |-> in[2] = "embedded"]
              cs_parser == [loaded |-> parsers.cs, raises |-> in[2] = "embedded"]
          IN  Call("process_cshtml", file_path, in[2], <<in[1]>>,
                   Walked(parsers.html, in[2],
                          CshtmlRuns[in[1]][nfiles + 1][parsers.js][parsers.cs][in[2] = "embedded"].w, <<>>),
                   IF parsers.html /\ in[2] \in {"none", "embedded"}
                   THEN CshtmlRuns[in[1]][nfiles + 1][parsers.js][parsers.cs][in[2] = "embedded"].report
                   ELSE process_cshtml(file_path, parsers.html, js_parser, cs_parser, in[2], root_node))

ProcessPython ==
    /\ nfiles < MaxFiles
    /\ \E in \in Inputs(parsers.py, Len(PyFiles), FailPoints) :
          LET file_path == FilePath(nfiles + 1, ".py")
              w == PyRuns[in[1]][nfiles + 1].w
          IN  Call("process_python", file_path, in[2], <<in[1]>>,
                   Walked(parsers.py, in[2], w.summary, w.imports_list),
                   IF parsers.py /\ in[2] = "none" THEN PyRuns[in[1]][nfiles + 1].report
                   ELSE process_python(file_path, parsers.py, in[2], PyFiles[in[1]]))

ProcessCpp ==
    /\ nfiles < MaxFiles
    /\ \E in \in Inputs(parsers.cpp, Len(CppFiles), FailPoints) :
          LET file_path == FilePath(nfiles + 1, ".cpp")
              root_node == TranslationUnit(CppFiles[in[1]])
              w == CppRuns[in[1]][nfiles + 1].w
          IN  Call("process_cpp", file_path, in[2], CppFiles[in[1]],
                   Walked(parsers.cpp, in[2], w.summary, w.includes_list),
                   IF parsers.cpp /\ in[2] = "none" THEN CppRuns[in[1]][nfiles + 1].report
                   ELSE process_cpp(file_path, parsers.cpp, in[2], root_node))

\* a file whose name matches no branch of the chain is passed over
SkipFile ==
    /\ nfiles < MaxFiles
    /\ Call("skip", FilePath(nfiles + 1, ".txt"), "none", <<>>, NoWalk, <<>>)

\* if project_summary and project_summary[0].strip() == "": project_summary.pop(0)
PopLeadingBlank(summary) ==
    IF Len(summary) > 0 /\ Strip(summary[1]) = "" THEN Tail(summary) ELSE summary

\* the end of main(): the file loop is over (after any number of files), the
\* leading blank element is popped and the report is written as one text
WriteSummary ==
    /\ ~output_file.written
    /\ project_summary' = PopLeadingBlank(project_summary)
    /\ output_file' = [written |-> TRUE, text |-> Join("\n", PopLeadingBlank(project_summary))]
    /\ UNCHANGED <<last, nfiles, parsers>>

Next ==
    \/ ProcessCsharp
    \/ ProcessJavascript
    \/ ProcessCshtml
    \/ ProcessPython
    \/ ProcessCpp
    \/ SkipFile
    \/ WriteSummary

Spec == Init /\ [][Next]_vars

\* process_cpp on a single C/C++ file of any shape (at most MaxTop top-level nodes)
ProcessCppUnit ==
    /\ nfiles = 0
    /\ parsers.cpp
    /\ \E ixs \in CppUnits, ext \in {".cpp", ".hpp"} :
          LET file_path == FilePath(1, ext)
              root_node == TranslationUnit(ixs)
              w == analyze_cpp_node(root_node, [summary |-> <<>>, includes_list |-> <<>>], 0)
          IN  Call("process_cpp", file_path, "none", ixs,
                   Walked(parsers.cpp, "none", w.summary, w.includes_list),
                   process_cpp(file_path, parsers.cpp, "none", root_node))

\* every grammar loaded
AllLoaded == \A c \in ParserConfigs : \A g \in DOMAIN c : c[g] => parsers[g]

InitCpp == Init /\ AllLoaded

SpecCpp == InitCpp /\ [][ProcessCppUnit]_vars

(***************************************************************************)
(* Properties                                                              *)
(***************************************************************************)
\* the lines the last call appended to the report
Section == SubSeq(project_summary, last.start + 1, Len(project_summary))

LanguageTag(op) ==
    CASE op = "process_csharp"     -> "C#"
      [] op = "process_javascript" -> "JavaScript"
      [] op = "process_cshtml"     -> "CSHTML"
      [] op = "process_python"     -> "Python"
      [] op = "process_cpp"        -> "C/C++"
      [] OTHER -> ""

\* the last call is a process_cpp call whose walker ran to completion
CppWalked == last.op = "process_cpp" /\ last.walked

\* what follows the FILE header and the INCLUDES line in the last section
SectionBody ==
    SubSeq(Section, (IF Len(last.directives) > 0 THEN 3 ELSE 2), Len(Section))

\* a zero-indent line `K: R C::M`: a kind label, then text whose last `::`
\* directly follows a word
KindOf(line) == SubSeq(line, 1, SpanLen(line, WordChars))

SignatureOf(line) == SubSeq(line, SpanLen(line, WordChars) + 3, Len(line))

HasKindPrefix(line) ==
    /\ SpanLen(line, WordChars) >= 1
    /\ Len(line) >= SpanLen(line, WordChars) + 2
    /\ SubSeq(line, SpanLen(line, WordChars) + 1, SpanLen(line, WordChars) + 2) = ": "

OwnerPart(line) == RSplit1(SignatureOf(line), "::")[1]

MemberPart(line) == RSplit1(SignatureOf(line), "::")[2]

IsQualifiedLine(line) ==
    /\ ~StartsWith(line, " ")
    /\ HasKindPrefix(line)
    /\ Contains(SignatureOf(line), "::")
    /\ OwnerPart(line) # ""
    /\ ~IsSpace(Ch(OwnerPart(line), Len(OwnerPart(line))))

\* `R M`: the words before the owning type, a space, the member
Unqualified(line) ==
    LET words == Split(OwnerPart(line))
    IN  Strip(Join(" ", SubSeq(words, 1, Len(words) - 1)) \o " " \o MemberPart(line))

OwnerOf(line) == LET words == Split(OwnerPart(line)) IN words[Len(words)]

\* body holds `CLASS: owner`, below it the header of group kind, below that text
InClassGroup(body, owner, kind, text) ==
    \E h, g, m \in 1..Len(body) :
        /\ h < g /\ g < m
        /\ body[h] = "CLASS: " \o owner
        /\ body[g] = "  " \o kind \o ":"
        /\ body[m] = "    " \o text
        /\ \A x \in (h + 1)..m : StartsWith(body[x], "  ")
        /\ \A x \in (g + 1)..m : StartsWith(body[x], "    ")

\* C1: every zero-indent raw line `K: R C::M` of a C/C++ file is rendered in
\* the final body as `R M` in kind group K under a synthesized `CLASS: C`
\* header, and the qualified line itself is no longer in the body.
C1_QualifiedLinesReparented ==
    CppWalked =>
        \A i \in 1..Len(last.raw) :
            IsQualifiedLine(last.raw[i]) =>
                /\ InClassGroup(SectionBody, OwnerOf(last.raw[i]), KindOf(last.raw[i]), Unqualified(last.raw[i]))
                /\ last.raw[i] \notin Range(SectionBody)

\* a kind header `{indent}{KIND}:` at index h of body
IsKindHeader(line) ==
    LET t == LStrip(line)
    IN  SpanLen(t, WordChars) >= 1 /\ Len(t) = SpanLen(t, WordChars) + 1 /\ EndsWith(t, ":")

\* the lines directly grouped under the header at index h
RECURSIVE GroupedUnder(_, _, _)
GroupedUnder(body, h, x) ==
    IF x <= Len(body) /\ LeadingSpaces(body[x]) > LeadingSpaces(body[h])
    THEN <<body[x]>> \o GroupedUnder(body, h, x + 1)
    ELSE <<>>

\* C2: under every kind header of the final body each distinct signature
\* appears exactly once, in sorted order.
C2_GroupsDeduplicated ==
    CppWalked =>
        \A h \in 1..Len(SectionBody) :
            IsKindHeader(SectionBody[h]) => IsSortedStrict(GroupedUnder(SectionBody, h, h + 1))

\* a zero-indent raw line with `::` that has no owning type to split off:
\* no `KIND:` prefix, or no word before the last `::`
IsUnsplittableLine(line) ==
    /\ ~StartsWith(line, " ")
    /\ Contains(line, "::")
    /\ \/ ~HasKindPrefix(line)
       \/ ~Contains(SignatureOf(line), "::")
       \/ Len(Split(OwnerPart(line))) = 0

\* C3: every zero-indent raw line with `::` that cannot be split stays in
\* the final body unmodified, in its original order, and every raw line
\* without `::` is still emitted.
C3_UnsplittableLinesKept ==
    CppWalked =>
        /\ SelectSeq(last.raw, IsUnsplittableLine) = SelectSeq(SectionBody, IsUnsplittableLine)
        /\ \A i \in 1..Len(last.raw) :
              ~Contains(last.raw[i], "::") =>
                  \E j \in 1..Len(SectionBody) : EndsWith(SectionBody[j], Strip(SignatureOf(LStrip(last.raw[i]))))

\* the line list Pass A produced: the remaining lines, then each owning
\* type's group in order of its name
RECURSIVE PassAGroups(_, _)
PassAGroups(names, class_definitions) ==
    IF Len(names) = 0 THEN <<>>
    ELSE <<"CLASS: " \o names[1]>> \o DictGet(class_definitions, names[1]) \o
         PassAGroups(Tail(names), class_definitions)

PassAOutput(a) ==
    a.other_lines \o PassAGroups(SetToSorted(DictKeys(a.class_definitions)), a.class_definitions)

\* C4: Pass A applied to the line list it produced re-parents nothing and
\* returns the same list.
C4_PassAIdempotent ==
    (CppWalked /\ ~PassA(last.raw).raised) =>
        LET out   == PassAOutput(PassA(last.raw))
            again == PassA(out)
        IN  /\ ~again.raised
            /\ Len(again.class_definitions) = 0
            /\ again.other_lines = out

\* C5: a file that yields zero directives and zero declaration lines adds
\* nothing to the project report, whatever its language.
C5_EmptyFileAppendsNothing ==
    (last.walked /\ Len(last.raw) = 0 /\ Len(last.directives) = 0) => Len(Section) = 0

\* an empty C# file processed after a file that produced a section
C5_Witness ==
    /\ last.op = "process_csharp" /\ last.walked
    /\ Len(last.raw) = 0 /\ Len(last.directives) = 0
    /\ last.start > 0 /\ Len(project_summary) = last.start

\* s cut at every occurrence of sep
RECURSIVE SplitOn(_, _)
SplitOn(s, sep) ==
    IF ~Contains(s, sep) THEN <<s>>
    ELSE LET p == SetMin(Occurrences(s, sep))
         IN  <<SubSeq(s, 1, p - 1)>> \o SplitOn(SubSeq(s, p + Len(sep), Len(s)), sep)

DirectiveLabel(op) ==
    CASE op = "process_csharp" -> "USINGS"
      [] op = "process_python" -> "IMPORTS"
      [] op = "process_cpp"    -> "INCLUDES"
      [] OTHER -> ""

\* C6: the directive summary line of a file lists each distinct directive
\* exactly once, in ascending order, joined by `, `.
C6_DirectivesSortedDistinct ==
    (last.walked /\ Len(last.directives) > 0) =>
        LET prefix == "  " \o DirectiveLabel(last.op) \o ": "
        IN  /\ Len(Section) >= 2
            /\ StartsWith(Section[2], prefix)
            /\ LET items == SplitOn(SubSeq(Section[2], Len(prefix) + 1, Len(Section[2])), ", ")
               IN  IsSortedStrict(items) /\ Range(items) = Range(last.directives)

\* the walker collected B, A, A and the line reads A, B
C6_Witness ==
    /\ last.op = "process_csharp" /\ last.walked
    /\ last.directives = <<"B", "A", "A">>
    /\ Section[2] = "  USINGS: A, B"

\* the last call raised: at a fail point, or in the regrouping of process_cpp
CallRaised ==
    \/ last.fail \in {"read", "parse", "walk"}
    \/ CppWalked /\ PassA(last.raw).raised

\* C7: a file whose processing raises contributes exactly one FILE header
\* followed by one error line naming the file and the message.
C7_FailureContained ==
    CallRaised =>
        /\ Len(Section) = 2
        /\ Section[1] = "\n-- FILE: " \o last.file_path \o " (" \o LanguageTag(last.op) \o ") --"
        /\ StartsWith(Section[2], "  Error processing " \o last.file_path \o ": ")
        /\ Len(Section[2]) > Len("  Error processing " \o last.file_path \o ": ")

CppDeclarationKinds ==
    {"namespace_definition", "class_specifier", "struct_specifier", "union_specifier",
     "function_definition", "declaration", "field_declaration"}

\* C8: a recognized declaration with a missing sub-part still yields a
\* line, and no emitted line has an empty name.
C8_PlaceholderForMissingPart ==
    (last.walked /\ last.op \in {"process_cpp", "process_python"}) =>
        /\ \A i \in 1..Len(last.raw) :
              HasKindPrefix(LStrip(last.raw[i])) => Strip(SignatureOf(LStrip(last.raw[i]))) # ""
        /\ last.op = "process_cpp" =>
              \A k \in 1..Len(last.input) :
                  CppNodes[last.input[k]].node_type \in CppDeclarationKinds =>
                      Len(analyze_cpp_node(CppNodes[last.input[k]],
                                           [summary |-> <<>>, includes_list |-> <<>>], 0).summary) > 0

Vocabulary(op) ==
    CASE op = "process_csharp" ->
           {"NAMESPACE", "CLASS", "STRUCT", "INTERFACE", "ENUM", "RECORD", "METH", "CONSTRUCTOR",
            "DESTRUCTOR", "FIELD", "PROP", "EVENT", "DELEGATE"}
      [] op = "process_javascript" ->
           {"FUNC", "CLASS", "METHOD", "CONSTRUCTOR", "GETTER", "SETTER", "VARIABLE", "ARROW_FUNCTION"}
      [] op = "process_python" -> {"DECORATOR", "FUNC", "CLASS"}
      [] op = "process_cpp" ->
           {"NAMESPACE", "CLASS", "STRUCT", "UNION", "FUNC", "CONSTRUCTOR", "DESTRUCTOR", "FUNC_DECL",
            "FORWARD_DECL", "FIELD"}
      [] OTHER -> {}

\* C9: every line a language walker emits is `{indent}{KIND}: {signature}`
\* with KIND in the language's vocabulary, and the C# file
\* `class A { void M(){} }` yields the section `CLASS: A`, `  METH: M()`.
C9_LabelledLines ==
    (last.walked /\ last.op \in {"process_csharp", "process_javascript", "process_python", "process_cpp"}) =>
        /\ \A i \in 1..Len(last.raw) :
              /\ HasKindPrefix(LStrip(last.raw[i]))
              /\ KindOf(LStrip(last.raw[i])) \in Vocabulary(last.op)
              /\ LeadingSpaces(last.raw[i]) % 2 = 0
        /\ (last.op = "process_csharp" /\ last.input = <<2>>) =>
              Section = <<"\n-- FILE: " \o last.file_path \o " (C#) --", "CLASS: A", "  METH: M()">>

\* the script elements of a markup tree, in document order
RECURSIVE ScriptElements(_)
RECURSIVE ScriptElementsOfAll(_)
ScriptElementsOfAll(nodes) ==
    IF Len(nodes) = 0 THEN <<>> ELSE ScriptElements(nodes[1]) \o ScriptElementsOfAll(Tail(nodes))

ScriptElements(node) ==
    IF node.node_type = "script_element" THEN <<node>> ELSE ScriptElementsOfAll(node.children)

\* the text between the tags of a script element
InnerText(script) == get_node_text(FirstChild(script, LAMBDA c : c.node_type = "raw_text"), "")

IsInfix(sub, seq) == \E k \in 0..(Len(seq) - Len(sub)) : SubSeq(seq, k + 1, k + Len(sub)) = sub

\* the marker and, one level deeper, the lines of the JavaScript walker
ExpectedScriptLines(script) ==
    LET lines == analyze_javascript_node(ParseJavaScript(InnerText(script)), <<>>, 0)
    IN  <<"SCRIPT BLOCK:">> \o [i \in 1..Len(lines) |-> "  " \o lines[i]]

\* C10: with a JavaScript parser at hand, every script element with
\* non-blank inner text yields `SCRIPT BLOCK:` followed by the JavaScript
\* walker's lines for that text one level deeper.
C10_ScriptBlockNested ==
    (last.op = "process_cshtml" /\ last.walked /\ last.fail = "none" /\ parsers.js) =>
        LET scripts == ScriptElements(CshtmlFiles[last.input[1]])
        IN  /\ \A k \in 1..Len(scripts) :
                  Strip(InnerText(scripts[k])) # "" => IsInfix(ExpectedScriptLines(scripts[k]), Section)
            /\ Len(SelectSeq(Section, LAMBDA l : l = "SCRIPT BLOCK:")) = Len(scripts)

\* the page with `<script> function f(a){} </script>`
C10_Witness ==
    /\ last.op = "process_cshtml" /\ last.walked /\ last.fail = "none" /\ parsers.js
    /\ last.input = <<2>>
    /\ Section = <<"\n-- FILE: " \o last.file_path \o " (CSHTML) --", "SCRIPT BLOCK:", "  FUNC: f(a)">>

(***************************************************************************)
(* The written report                                                      *)
(***************************************************************************)
\* the physical lines of the text written to the output file
WrittenLines == SplitOn(output_file.text, "\n")

\* C11: whenever the report was written and holds at least one section, the
\* first line of the written text is the first section's `-- FILE: ...`
\* header and not an empty line.
C11_NoLeadingBlankLine ==
    (output_file.written /\ Len(project_summary) > 0)
        => StartsWith(WrittenLines[1], "-- FILE: ")

(***************************************************************************)
(* The final body of process_cpp                                           *)
(***************************************************************************)
\* the last call is a process_cpp call that emitted a final body
CppRegrouped ==
    /\ CppWalked
    /\ Len(Section) > 0
    /\ ~StartsWith(Section[Len(Section)], "  Error processing ")

ContainerKinds == {"CLASS", "STRUCT", "UNION", "NAMESPACE", "FORWARD_DECL"}

\* the KIND of a raw line at any depth
RawKind(line) == KindOf(LStrip(line))

\* the text after `KIND: ` of a raw line at any depth, stripped
RawText(line) == Strip(SignatureOf(LStrip(line)))

\* C12: every CLASS, STRUCT, UNION, NAMESPACE and FORWARD_DECL line of the
\* raw list stands in the final body as the same single line, and the final
\* body has no `{KIND}:` group header of a container kind.
C12_ContainersNeverGrouped ==
    CppRegrouped =>
        /\ \A i \in 1..Len(last.raw) :
              RawKind(last.raw[i]) \in ContainerKinds => last.raw[i] \in Range(SectionBody)
        /\ \A h \in 1..Len(SectionBody) :
              IsKindHeader(SectionBody[h]) => RawKind(SectionBody[h]) \notin ContainerKinds

\* a raw line below a container: indented, and not itself a container line
IsMemberLine(line) == LeadingSpaces(line) > 0 /\ RawKind(line) \notin ContainerKinds

\* index of the nearest line before k with a smaller indent that is not a
\* group header: the line that owns line k (0 when there is none)
OwnerIndex(lines, k) ==
    LET above == {j \in 1..(k - 1) : /\ LeadingSpaces(lines[j]) < LeadingSpaces(lines[k])
                                     /\ ~IsKindHeader(lines[j])}
    IN  IF above = {} THEN 0 ELSE SetMax(above)

\* the line at p of the body renders the raw line: unchanged, or as the
\* signature below a group header
Renders(bodyline, rawline) ==
    LStrip(bodyline) \in {LStrip(rawline), RawText(rawline)}

\* the body line is the raw container line, or what Pass A made of it
SameContainer(bodyline, rawline) ==
    \/ LStrip(bodyline) = LStrip(rawline)
    \/ /\ IsQualifiedLine(rawline)
       /\ LStrip(bodyline) \in {Unqualified(rawline), KindOf(rawline) \o ": " \o Unqualified(rawline)}

\* C13: every member line of the raw list is rendered in the final body at
\* a place whose nearest enclosing container line is the container that
\* owned the member in the raw list.
C13_MembersKeepTheirOwner ==
    CppRegrouped =>
        \A k \in 1..Len(last.raw) :
            (IsMemberLine(last.raw[k]) /\ OwnerIndex(last.raw, k) > 0) =>
                \E p \in 1..Len(SectionBody) :
                    /\ Renders(SectionBody[p], last.raw[k])
                    /\ OwnerIndex(SectionBody, p) > 0
                    /\ SameContainer(SectionBody[OwnerIndex(SectionBody, p)],
                                     last.raw[OwnerIndex(last.raw, k)])

\* two consecutive raw lines that form a run: same indent, same kind, the
\* kind not a container kind, and neither line re-parented by Pass A
IsRun(a, b) ==
    /\ LeadingSpaces(a) = LeadingSpaces(b)
    /\ HasKindPrefix(LStrip(a)) /\ HasKindPrefix(LStrip(b))
    /\ RawKind(a) = RawKind(b)
    /\ RawKind(a) \notin ContainerKinds
    /\ ~Contains(a, "::") /\ ~Contains(b, "::")

\* C14: wherever two consecutive raw lines form a run, the final body has
\* the header `{indent}{KIND}:` with both members one level deeper below it,
\* in sorted order.
C14_EveryRunGrouped ==
    CppRegrouped =>
        \A k \in 1..(Len(last.raw) - 1) :
            IsRun(last.raw[k], last.raw[k + 1]) =>
                LET indent == SubSeq(last.raw[k], 1, LeadingSpaces(last.raw[k])) IN
                \E h \in 1..Len(SectionBody) :
                    /\ SectionBody[h] = indent \o RawKind(last.raw[k]) \o ":"
                    /\ {indent \o "  " \o RawText(last.raw[k]), indent \o "  " \o RawText(last.raw[k + 1])}
                           \subseteq Range(GroupedUnder(SectionBody, h, h + 1))
                    /\ IsSorted(GroupedUnder(SectionBody, h, h + 1))

\* the fixed preferred ordering of kinds
PreferredKinds == <<"FIELD", "CONSTRUCTOR", "DESTRUCTOR", "FUNC", "FUNC_DECL">>

PreferredRank(kind) == CHOOSE i \in 1..Len(PreferredKinds) : PreferredKinds[i] = kind

\* kind a is printed before kind b: by preferred rank, preferred kinds before
\* the others, the others by name
KindBefore(a, b) ==
    IF a \in Range(PreferredKinds)
    THEN b \in Range(PreferredKinds) => PreferredRank(a) < PreferredRank(b)
    ELSE b \notin Range(PreferredKinds) /\ StrLess(a, b)

\* the line at q is the next kind header of the block of the header at p
IsNextHeader(body, p, q) ==
    /\ q <= Len(body)
    /\ IsKindHeader(body[q])
    /\ LeadingSpaces(body[p]) = LeadingSpaces(body[q])

\* C15: the kind headers of one block are in the order FIELD, CONSTRUCTOR,
\* DESTRUCTOR, FUNC, FUNC_DECL, then the other kinds by name; no kind has
\* two headers in a block; every header has members, in ascending order.
\* (KindBefore is a strict total order, so it is stated on each header and
\* the header that follows its members.)
C15_KindOrderInBlock ==
    CppRegrouped =>
        LET body == SectionBody IN
        \A p \in 1..Len(body) :
            IsKindHeader(body[p]) =>
                LET members == GroupedUnder(body, p, p + 1)
                    q       == p + Len(members) + 1
                IN  /\ Len(members) > 0
                    /\ IsSorted(members)
                    /\ IsNextHeader(body, p, q) => KindBefore(RawKind(body[p]), RawKind(body[q]))

\* a class whose raw members come in the reverse of the printed order, with
\* two kinds outside the preferred list and two fields
C15_Witness ==
    /\ CppRegrouped
    /\ \E i, j \in 1..Len(last.raw) :
          i < j /\ last.raw[i] = "  FUNC_DECL: int f()" /\ last.raw[j] = "  FIELD: int y"
    /\ \E c, f, d, o, t \in 1..Len(SectionBody) :
          /\ c < f /\ f < d /\ d < o /\ o < t
          /\ SectionBody[c] = "CLASS: K"
          /\ SectionBody[f] = "  FIELD:" /\ SectionBody[f + 1] = "    int x" /\ SectionBody[f + 2] = "    int y"
          /\ SectionBody[d] = "  FUNC_DECL:"
          /\ SectionBody[o] = "  FORWARD_DECL:"
          /\ SectionBody[t] = "  STRUCT:"

\* a zero-indent raw line that Pass A re-parents
IsReparented(line) ==
    /\ ~StartsWith(line, " ")
    /\ HasKindPrefix(line)
    /\ Contains(SignatureOf(line), "::")
    /\ Len(Split(OwnerPart(line))) > 0

\* the owning-type names of the raw list, in ascending order, each once
OwnerNames(raw) == SetToSorted({OwnerOf(raw[i]) : i \in {j \in 1..Len(raw) : IsReparented(raw[j])}})

\* tail is the sequence of synthesized groups of names: one `CLASS: name`
\* per name, in order, each followed by kind headers and their members
IsGroupTail(tail, names) ==
    /\ SelectSeq(tail, LAMBDA l : ~StartsWith(l, " ")) = [i \in 1..Len(names) |-> "CLASS: " \o names[i]]
    /\ \A x \in 1..Len(tail) :
          \/ ~StartsWith(tail[x], " ") /\ x < Len(tail) /\ IsKindHeader(tail[x + 1])
          \/ IsKindHeader(tail[x]) /\ LeadingSpaces(tail[x]) = 2
          \/ LeadingSpaces(tail[x]) = 4 /\ x > 1 /\ StartsWith(tail[x - 1], "  ")

\* C16: the final body is the lines that were not re-parented, followed by
\* one synthesized `CLASS: <owner>` group per distinct owning type, in
\* ascending order of the name, each rendered as kind groups.
C16_GroupsAppendedInOrder ==
    CppRegrouped =>
        LET body  == SectionBody
            moved == {j \in 1..Len(last.raw) : IsReparented(last.raw[j])}
            names == SetToSorted({OwnerOf(last.raw[j]) : j \in moved})
            kept  == {RawText(last.raw[j]) : j \in (1..Len(last.raw)) \ moved}
        IN  \E s \in {x \in 0..Len(body) : x = Len(body) \/ ~StartsWith(body[x + 1], " ")} :
                /\ IsGroupTail(SubSeq(body, s + 1, Len(body)), names)
                /\ \A text \in kept : \E j \in 1..s : EndsWith(body[j], text)

\* two owning types met in descending order, after a class that stays
C16_Witness ==
    /\ CppRegrouped
    /\ Len(OwnerNames(last.raw)) = 2
    /\ \E i, j \in 1..Len(last.raw) :
          /\ i < j /\ IsReparented(last.raw[i]) /\ IsReparented(last.raw[j])
          /\ StrLess(OwnerOf(last.raw[j]), OwnerOf(last.raw[i]))
    /\ ~IsReparented(last.raw[1])
    /\ SectionBody[1] = last.raw[1]

(***************************************************************************)
(* CSHTML directives and code blocks, unrecognized nodes                   *)
(***************************************************************************)
\* the stripped line begins with one of the four directive keywords
IsDirectiveText(l) == \E kw \in {"@page", "@model", "@using", "@inject"} : StartsWith(l, kw)

\* C17: a directive line of a CSHTML file is emitted as a DIRECTIVE line if
\* and only if it is among the first 30 physical lines of the file.
C17_DirectivesInFirst30Lines ==
    (last.op = "process_cshtml" /\ last.walked) =>
        LET lines == SplitOn(get_node_text(CshtmlFiles[last.input[1]], ""), "\n")
        IN  \A n \in 1..Len(lines) :
                IsDirectiveText(Strip(lines[n])) =>
                    (("  DIRECTIVE: " \o Strip(lines[n])) \in Range(Section) <=> n <= 30)

\* the nodes held in the named fields of a node
FieldNodes(node) ==
    LET names == SetToSorted(DOMAIN node.fields \ {"absent"})
    IN  [i \in 1..Len(names) |-> node.fields[names[i]]]

\* every node of the tree below and including node, reached through children
\* and through named fields
RECURSIVE Subtree(_)
Subtree(node) ==
    <<node>> \o Flatten([i \in 1..Len(node.children) |-> Subtree(node.children[i])])
             \o Flatten([i \in 1..Len(FieldNodes(node)) |-> Subtree(FieldNodes(node)[i])])

\* the tree the last call walked
WalkedTree ==
    CASE last.op = "process_javascript" -> JsFiles[last.input[1]]
      [] last.op = "process_python"     -> PyFiles[last.input[1]]

\* C18: every function declaration of a JavaScript or Python file yields its
\* FUNC line, also when it lies below nodes the walker does not recognize.
C18_UnrecognizedNodesTransparent ==
    (last.walked /\ last.op \in {"process_javascript", "process_python"}) =>
        LET nodes == Subtree(WalkedTree)
        IN  \A k \in 1..Len(nodes) :
                nodes[k].node_type \in {"function_declaration", "function_definition"} =>
                    \E i \in 1..Len(last.raw) :
                        EndsWith(last.raw[i],
                                 "FUNC: " \o get_node_text(child_by_field_name(nodes[k], "name"), "")
                                          \o get_node_text(child_by_field_name(nodes[k], "parameters"), ""))

\* index of the brace that closes the region opened before i at the given depth
RECURSIVE ClosingBrace(_, _, _)
ClosingBrace(s, i, depth) ==
    IF i > Len(s) THEN 0
    ELSE IF Ch(s, i) = "{" THEN ClosingBrace(s, i + 1, depth + 1)
    ELSE IF Ch(s, i) = "}" THEN (IF depth = 1 THEN i ELSE ClosingBrace(s, i + 1, depth - 1))
    ELSE ClosingBrace(s, i + 1, depth)

\* the text between the brace that follows the first @functions / @code
\* marker and the brace that matches it
OuterBlockContent(text) ==
    LET marks == Occurrences(Lower(text), "@code {") \cup Occurrences(Lower(text), "@functions {")
        open  == SetMin(Occurrences(SubSeq(text, SetMin(marks), Len(text)), "{")) + SetMin(marks) - 1
    IN  SubSeq(text, open + 1, ClosingBrace(text, open + 1, 1) - 1)

HasCodeBlock(text) ==
    /\ Occurrences(Lower(text), "@code {") \cup Occurrences(Lower(text), "@functions {") # {}
    /\ Len(OuterBlockContent(text)) > 0

\* the marker line and, one level deeper, the C# walker's lines for the
\* whole content of the block
ExpectedCodeLines(text) ==
    <<"CSHTML C# BLOCK (@functions/@code) DETECTED.">> \o
    analyze_csharp_node(ParseCsharp(Strip(OuterBlockContent(text))),
                        [summary |-> <<>>, usings_list |-> <<>>], 1).summary

\* C19: with a C# parser at hand, a text node with an @functions / @code
\* block yields the marker line followed by the C# walker's lines for the
\* full content between the opening brace and its matching closing brace.
C19_CodeBlockOutermostBraces ==
    (last.op = "process_cshtml" /\ last.walked /\ last.fail = "none" /\ parsers.cs) =>
        LET nodes == Subtree(CshtmlFiles[last.input[1]])
        IN  \A k \in 1..Len(nodes) :
                (nodes[k].node_type \in {"text", "template_content"} /\ HasCodeBlock(nodes[k].src)) =>
                    IsInfix(ExpectedCodeLines(nodes[k].src), Section)

(***************************************************************************)
(* The report across files                                                 *)
(***************************************************************************)
IsPrefix(a, b) == Len(a) <= Len(b) /\ SubSeq(b, 1, Len(a)) = a

\* C20: every process_* call leaves the lines already in the report in
\* place, and what it adds starts with the header of the file it processed.
C20_ReportAppendOnly ==
    [][nfiles' = nfiles + 1 =>
          /\ IsPrefix(project_summary, project_summary')
          /\ Len(project_summary') > Len(project_summary) =>
                project_summary'[Len(project_summary) + 1] =
                    "\n-- FILE: " \o last'.file_path \o " (" \o LanguageTag(last'.op) \o ") --"]_vars

\* a second file that added a section below the section of the first
C20_Witness ==
    /\ nfiles = 2
    /\ last.start > 0
    /\ Len(project_summary) > last.start
    /\ StartsWith(project_summary[1], "\n-- FILE: ./a")
    /\ StartsWith(project_summary[last.start + 1], "\n-- FILE: ./b")

(***************************************************************************)
(* C++ function labels                                                     *)
(***************************************************************************)
\* the function definitions of the last translation unit that have a declarator
FunctionDefinitions ==
    LET nodes == Subtree(TranslationUnit(last.input))
    IN  SelectSeq(nodes, LAMBDA n : /\ n.node_type = "function_definition"
                                    /\ ~IsNone(child_by_field_name(n, "declarator")))

\* the function definitions for which the source declares a return type
WithReturnType == SelectSeq(FunctionDefinitions, LAMBDA n : ~IsNone(child_by_field_name(n, "type")))

\* the raw lines labelled with one of the kinds
LinesOfKind(kinds) == SelectSeq(last.raw, LAMBDA l : HasKindPrefix(LStrip(l)) /\ RawKind(l) \in kinds)

\* C21: as many lines are labelled FUNC as there are function definitions
\* with a declared return type (void included), as many are labelled
\* CONSTRUCTOR or DESTRUCTOR as there are function definitions without one,
\* a DESTRUCTOR line names a function starting with ~, and no signature
\* shows a void return type.
C21_VoidFunctionsLabelledFunc ==
    CppWalked =>
        /\ Len(LinesOfKind({"FUNC"})) = Len(WithReturnType)
        /\ Len(LinesOfKind({"CONSTRUCTOR", "DESTRUCTOR"})) = Len(FunctionDefinitions) - Len(WithReturnType)
        /\ \A i \in 1..Len(last.raw) :
              HasKindPrefix(LStrip(last.raw[i])) =>
                  /\ RawKind(last.raw[i]) = "DESTRUCTOR" => StartsWith(RawText(last.raw[i]), "~")
                  /\ RawKind(last.raw[i]) \in {"FUNC", "CONSTRUCTOR", "DESTRUCTOR"} =>
                        ~StartsWith(RawText(last.raw[i]), "void ")

====
